---- MODULE Spec2Model ----
(***************************************************************************)
(* The BCM2835 CPRMAN clock tree (clk-bcm2835): PLLs, PLL channel dividers *)
(* and peripheral clock generators, driven through their clk_ops on a      *)
(* register block.  The target is 32-bit ARM: unsigned long and u32 are 32 *)
(* bits wide, u64 is 64 bits wide.  fw is the state of the firmware       *)
(* mailbox transport (raspberrypi_firmware_transaction), bind the binding  *)
(* of the firmware device (probe, remove), rpi a firmware clock            *)
(* (clk-raspberrypi) and run the threads that are inside a clk_ops call.   *)
(***************************************************************************)
EXTENDS Integers, Sequences, FiniteSets, TLC

VARIABLES regs, hw, call, prog, fw, rpi, run, bind

vars == <<regs, hw, call, prog, fw, rpi, run, bind>>

(***************************************************************************)
(* C unsigned integers.  A u32 or u64 value is a tuple of five limbs of 15 *)
(* bits, least significant first, so that every intermediate result of the *)
(* limb arithmetic stays below 2^31.                                       *)
(***************************************************************************)
R == 32768

Tup(F(_)) == <<F(1), F(2), F(3), F(4), F(5)>>

Zero == <<0, 0, 0, 0, 0>>

\* the u32 of an integer literal 0 <= n < 2^31
U(n) == <<n % R, (n \div R) % R, n \div (R * R), 0, 0>>

\* the integer of a value below 2^31
Val(w) == w[1] + R * w[2] + R * R * w[3]

\* conversion to u64 and to u32 (unsigned long, long): the low bits are kept
Trunc64(w) == [w EXCEPT ![5] = @ % 16]

Trunc32(w) == <<w[1], w[2], w[3] % 4, 0, 0>>

Lt(a, b) == \E i \in 1..5 : a[i] < b[i] /\ \A j \in (i + 1)..5 : a[j] = b[j]

Le(a, b) == a = b \/ Lt(a, b)

Limb(w, i) == IF i \in 1..5 THEN w[i] ELSE 0

ShlQ(w, q, m) ==
  Tup(LAMBDA i : ((Limb(w, i - q) * m) % R) + ((Limb(w, i - q - 1) * m) \div R))

\* w << k on a u64 and on a u32
Shl64(w, k) == Trunc64(ShlQ(w, k \div 15, 2^(k % 15)))

Shl32(w, k) == Trunc32(ShlQ(w, k \div 15, 2^(k % 15)))

ShrQ(w, q, m) ==
  Tup(LAMBDA i : (Limb(w, i + q) \div m) + ((Limb(w, i + q + 1) % m) * (R \div m)))

\* w >> k
Shr(w, k) == ShrQ(w, k \div 15, 2^(k % 15))

RECURSIVE AndL(_, _)
AndL(a, b) ==
  IF a = 0 \/ b = 0 THEN 0 ELSE ((a % 2) * (b % 2)) + 2 * AndL(a \div 2, b \div 2)

\* a & b, a | b, ~a (of a u32)
And(a, b) == Tup(LAMBDA i : AndL(a[i], b[i]))

Or(a, b) == Tup(LAMBDA i : a[i] + b[i] - AndL(a[i], b[i]))

Not32(a) == <<R - 1 - a[1], R - 1 - a[2], 3 - a[3], 0, 0>>

\* BIT(n)
BIT(n) == Shl32(U(1), n)

\* limb-serial a * m + b + c for one limb m
RECURSIVE MulAddR(_, _, _, _, _)
MulAddR(a, m, b, i, c) ==
  IF i > 5 THEN <<>>
  ELSE <<(a[i] * m + b[i] + c) % R>>
       \o MulAddR(a, m, b, i + 1, (a[i] * m + b[i] + c) \div R)

Neg(b) == Tup(LAMBDA i : R - 1 - b[i])

\* a + b and a - b, wrapping at the width of the type
Add64(a, b) == Trunc64(MulAddR(a, 1, b, 1, 0))

Add32(a, b) == Trunc32(MulAddR(a, 1, b, 1, 0))

Sub64(a, b) == Trunc64(MulAddR(a, 1, Neg(b), 1, 1))

Sub32(a, b) == Trunc32(MulAddR(a, 1, Neg(b), 1, 1))

MulL(a, m) == MulAddR(a, m, Zero, 1, 0)

RECURSIVE MulR(_, _, _, _)
MulR(a, b, i, acc) ==
  IF i > 5 \/ acc[1] < 0 THEN acc
  ELSE MulR(a, b, i + 1, MulAddR(ShlQ(a, i - 1, 1), b[i], acc, 1, 0))

\* a * b in u64
Mul64(a, b) == Trunc64(MulR(a, b, 1, Zero))

\* the largest limb k in lo..hi with d * k <= cur, by bisection
RECURSIVE QLimb(_, _, _, _)
QMid(d, cur, lo, hi, mid) ==
  IF Le(MulL(d, mid), cur) THEN QLimb(d, cur, mid, hi) ELSE QLimb(d, cur, lo, mid - 1)

QLimb(d, cur, lo, hi) ==
  IF lo >= hi THEN lo ELSE QMid(d, cur, lo, hi, (lo + hi + 1) \div 2)

\* long division of a u64 by a u32 divisor of 2^30 or more, a limb per step
RECURSIVE DivWide(_, _, _, _, _)
DivWideSub(n, d, i, q, cur, ql) ==
  DivWide(n, d, i - 1, [q EXCEPT ![i] = ql], Sub64(cur, MulL(d, ql)))

DivWideStep(n, d, i, q, cur) == DivWideSub(n, d, i, q, cur, QLimb(d, cur, 0, R - 1))

DivWide(n, d, i, q, rem) ==
  IF i < 1 \/ q[1] < 0 THEN q
  ELSE DivWideStep(n, d, i, q, <<n[i], rem[1], rem[2], rem[3], rem[4]>>)

\* long division of a u64 by an integer 0 < d < 2^30, a bit per step:
\* DivBits shifts the low k bits of limb l into the remainder
RECURSIVE DivBits(_, _, _, _, _)
DivBit(l, d, k, q, t) ==
  IF t >= d THEN DivBits(l, d, k, 2 * q + 1, t - d) ELSE DivBits(l, d, k, 2 * q, t)

DivBits(l, d, k, q, rem) ==
  IF k = 0 \/ q < 0 THEN <<q, rem>>
  ELSE DivBit(l, d, k - 1, q, 2 * rem + ((l \div 2^(k - 1)) % 2))

RECURSIVE DivInt(_, _, _, _, _)
DivIntStep(n, d, i, q, qr) == DivInt(n, d, i - 1, [q EXCEPT ![i] = qr[1]], qr[2])

DivInt(n, d, i, q, rem) ==
  IF i < 1 \/ q[1] < 0 THEN q ELSE DivIntStep(n, d, i, q, DivBits(n[i], d, 15, 0, rem))

\* do_div(n, base): the quotient of the u64 n by the u32 base # 0
do_div(n, base) ==
  IF base[3] = 0 THEN DivInt(n, Val(base), 5, Zero, 0) ELSE DivWide(n, base, 5, Zero, Zero)

\* rates in Hz: mhz * 10^6 + hz
Hz(mhz, hz) == Add32(MulL(U(1000000), mhz), U(hz))

(***************************************************************************)
(* Register layout.                                                        *)
(***************************************************************************)
CM_PASSWORD == Shl32(U(\H5a), 24)

CM_DIV_FRAC_BITS == 12

CM_ENABLE == BIT(4)

CM_GATE == BIT(6)

CM_BUSY == BIT(7)

CM_PLL_ANARST == BIT(8)

CM_LOCK == \H114

A2W_PLL_CTRL_PDIV_MASK == U(\H7000)

A2W_PLL_CTRL_PDIV_SHIFT == 12

A2W_PLL_CTRL_NDIV_MASK == U(\H3ff)

A2W_PLL_CTRL_NDIV_SHIFT == 0

A2W_XOSC_CTRL == \H1190

A2W_PLL_FRAC_BITS == 20

A2W_PLL_FRAC_MASK == Sub32(Shl32(U(1), A2W_PLL_FRAC_BITS), U(1))

A2W_PLL_CTRL_PWRDN == BIT(16)

A2W_PLL_CTRL_PRST_DISABLE == BIT(17)

A2W_PLL_CHANNEL_DISABLE == BIT(8)

A2W_PLL_DIV_BITS == 8

EINVAL == 22

(***************************************************************************)
(* The static tables of the driver.                                        *)
(***************************************************************************)
bcm2835_ana_default ==
  [mask0 |-> U(0),
   set0 |-> U(0),
   mask1 |-> Not32(Or(Shl32(U(7), 19), Shl32(U(15), 15))),
   set1 |-> Or(Shl32(U(2), 19), Shl32(U(8), 15)),
   mask3 |-> Not32(Shl32(U(7), 7)),
   set3 |-> Shl32(U(6), 1),
   fb_prediv_bit |-> 14]

bcm2835_ana_pllh ==
  [mask0 |-> Not32(Or(Shl32(U(7), 19), Shl32(U(3), 22))),
   set0 |-> Or(Shl32(U(2), 19), Shl32(U(2), 22)),
   mask1 |-> Not32(Or(Shl32(U(1), 0), Shl32(U(15), 1))),
   set1 |-> Shl32(U(6), 1),
   mask3 |-> U(0),
   set3 |-> U(0),
   fb_prediv_bit |-> 11]

\* struct bcm2835_pll_data, in the order of its positional initializers
PllRow(cm, a2w, frac, ana0, refen, lock, ana, min, max, maxfb) ==
  [cm_ctrl_reg |-> cm, a2w_ctrl_reg |-> a2w, frac_reg |-> frac, ana_reg_base |-> ana0,
   reference_enable_mask |-> refen, lock_mask |-> lock, ana |-> ana,
   min_rate |-> min, max_rate |-> max, max_fb_rate |-> maxfb]

bcm2835_pll_data ==
  [plla |-> PllRow(\H104, \H1100, \H1200, \H1010, BIT(6), BIT(8), bcm2835_ana_default,
                   Hz(600, 0), Hz(2400, 0), Hz(1750, 0)),
   pllb |-> PllRow(\H170, \H11e0, \H12e0, \H10f0, BIT(7), BIT(9), bcm2835_ana_default,
                   Hz(600, 0), Hz(3000, 0), Hz(1750, 0)),
   pllc |-> PllRow(\H108, \H1120, \H1220, \H1030, BIT(0), BIT(10), bcm2835_ana_default,
                   Hz(600, 0), Hz(3000, 0), Hz(1750, 0)),
   plld |-> PllRow(\H10c, \H1140, \H1240, \H1050, BIT(4), BIT(11), bcm2835_ana_default,
                   Hz(600, 0), Hz(2400, 0), Hz(1750, 0)),
   pllh |-> PllRow(\H110, \H1160, \H1260, \H1070, BIT(0), BIT(12), bcm2835_ana_pllh,
                   Hz(600, 0), Hz(3000, 0), Hz(1750, 0))]

Plls == DOMAIN bcm2835_pll_data

\* struct bcm2835_pll_divider_data of the channels that probe registers
DivRow(pll, cm, a2w, load, hold, fixed) ==
  [source_pll |-> pll, cm_reg |-> cm, a2w_reg |-> a2w, load_mask |-> load,
   hold_mask |-> hold, fixed_divider |-> fixed]

bcm2835_pll_divider_data ==
  [plla_core |-> DivRow("plla", \H104, \H1400, BIT(4), BIT(5), 1),
   plla_per |-> DivRow("plla", \H104, \H1500, BIT(6), BIT(7), 1),
   pllc_core0 |-> DivRow("pllc", \H108, \H1620, BIT(0), BIT(1), 1),
   pllc_core1 |-> DivRow("pllc", \H108, \H1420, BIT(2), BIT(3), 1),
   pllc_core2 |-> DivRow("pllc", \H108, \H1320, BIT(4), BIT(5), 1),
   pllc_per |-> DivRow("pllc", \H108, \H1520, BIT(6), BIT(7), 1),
   plld_core |-> DivRow("plld", \H10c, \H1440, BIT(4), BIT(5), 1),
   plld_per |-> DivRow("plld", \H10c, \H1540, BIT(6), BIT(7), 1),
   pllh_rcal |-> DivRow("pllh", \H110, \H1460, BIT(2), U(0), 10),
   pllh_aux |-> DivRow("pllh", \H110, \H1360, BIT(1), U(0), 10),
   pllh_pix |-> DivRow("pllh", \H110, \H1560, BIT(0), U(0), 10)]

Dividers == DOMAIN bcm2835_pll_divider_data

\* struct bcm2835_clock_data
ClockRow(ctl, div, ib, fb, nonstop) ==
  [ctl_reg |-> ctl, div_reg |-> div, int_bits |-> ib, frac_bits |-> fb,
   is_nonstop |-> nonstop]

bcm2835_clock_data ==
  [timer |-> ClockRow(\H0e8, \H0ec, 6, 12, FALSE),
   otp |-> ClockRow(\H090, \H094, 4, 0, FALSE),
   vpu |-> ClockRow(\H008, \H00c, 12, 8, TRUE),
   v3d |-> ClockRow(\H038, \H03c, 4, 8, FALSE),
   isp |-> ClockRow(\H030, \H034, 4, 8, FALSE),
   h264 |-> ClockRow(\H028, \H02c, 4, 8, FALSE),
   vec |-> ClockRow(\H0f8, \H0fc, 4, 0, FALSE),
   uart |-> ClockRow(\H0f0, \H0f4, 10, 12, FALSE),
   hsm |-> ClockRow(\H088, \H08c, 4, 8, FALSE),
   sdram |-> ClockRow(\H1a8, \H1ac, 6, 0, FALSE),
   tsens |-> ClockRow(\H0e0, \H0e4, 5, 0, FALSE),
   emmc |-> ClockRow(\H1c0, \H1c4, 4, 8, FALSE)]

Clocks == DOMAIN bcm2835_clock_data

PllRegs(p) ==
  LET d == bcm2835_pll_data[p]
  IN {d.cm_ctrl_reg, d.a2w_ctrl_reg, d.frac_reg, d.ana_reg_base, d.ana_reg_base + 4,
      d.ana_reg_base + 8, d.ana_reg_base + 12}

\* the registers of the block that the clock tree uses
Regs ==
  {CM_LOCK, A2W_XOSC_CTRL}
  \cup UNION {PllRegs(p) : p \in Plls}
  \cup {bcm2835_pll_divider_data[d].a2w_reg : d \in Dividers}
  \cup UNION {{bcm2835_clock_data[c].ctl_reg, bcm2835_clock_data[c].div_reg} : c \in Clocks}

(***************************************************************************)
(* Register access.  A running operation is a record s with the register   *)
(* contents s.mem and the accesses made so far s.log.                      *)
(***************************************************************************)
Access(op, reg, val) == [op |-> op, reg |-> reg, val |-> val]

\* writel(CM_PASSWORD | val, cprman->regs + reg)
cprman_write(s, reg, val) ==
  [s EXCEPT !.mem[reg] = Or(CM_PASSWORD, val),
            !.log = Append(@, Access("w", reg, Or(CM_PASSWORD, val)))]

\* readl(cprman->regs + reg): the value is s.mem[reg]
cprman_read(s, reg) == [s EXCEPT !.log = Append(@, Access("r", reg, s.mem[reg]))]

spin_lock(s) == [s EXCEPT !.log = Append(@, Access("lock", 0, Zero))]

spin_unlock(s) == [s EXCEPT !.log = Append(@, Access("unlock", 0, Zero))]

\* the end of an operation: its return value (err for int, ret for a rate)
Return(s, err, ret, div) ==
  [mem |-> s.mem, log |-> s.log, err |-> err, ret |-> ret, div |-> div]

(***************************************************************************)
(* PLL operations (bcm2835_pll_clk_ops).                                   *)
(***************************************************************************)
\* *ndiv = div >> A2W_PLL_FRAC_BITS; *fdiv = div & ((1 << A2W_PLL_FRAC_BITS) - 1)
PllDivisors(div) ==
  [ndiv |-> Trunc32(Shr(div, A2W_PLL_FRAC_BITS)),
   fdiv |-> Trunc32(And(div, Sub32(Shl32(U(1), A2W_PLL_FRAC_BITS), U(1))))]

bcm2835_pll_choose_ndiv_and_fdiv(rate, parent_rate) ==
  PllDivisors(do_div(Shl64(rate, A2W_PLL_FRAC_BITS), parent_rate))

bcm2835_pll_rate_from_divisors(parent_rate, ndiv, fdiv, pdiv) ==
  IF pdiv = Zero THEN Zero
  ELSE Trunc32(Shr(do_div(Mul64(parent_rate,
                                Add32(Shl32(ndiv, A2W_PLL_FRAC_BITS), fdiv)), pdiv),
                   A2W_PLL_FRAC_BITS))

\* variant: the rate is evaluated with pdiv = 2
PllRoundRateHalved(rate, parent_rate) ==
  bcm2835_pll_rate_from_divisors(
    parent_rate,
    bcm2835_pll_choose_ndiv_and_fdiv(rate, parent_rate).ndiv,
    bcm2835_pll_choose_ndiv_and_fdiv(rate, parent_rate).fdiv,
    U(2))

bcm2835_pll_round_rate(rate, parent_rate) ==
  bcm2835_pll_rate_from_divisors(
    parent_rate,
    bcm2835_pll_choose_ndiv_and_fdiv(rate, parent_rate).ndiv,
    bcm2835_pll_choose_ndiv_and_fdiv(rate, parent_rate).fdiv,
    U(1))

\* the fields of the control word
PllCtrlNdiv(a2wctrl) == Shr(And(a2wctrl, A2W_PLL_CTRL_NDIV_MASK), A2W_PLL_CTRL_NDIV_SHIFT)

PllCtrlPdiv(a2wctrl) == Shr(And(a2wctrl, A2W_PLL_CTRL_PDIV_MASK), A2W_PLL_CTRL_PDIV_SHIFT)

\* the integer divisor that get_rate uses: doubled when the pre-divider bit is set
PllEffectiveNdiv(data, a2wctrl, ana1) ==
  IF And(ana1, BIT(data.ana.fb_prediv_bit)) # Zero
  THEN Trunc32(MulL(PllCtrlNdiv(a2wctrl), 2))
  ELSE PllCtrlNdiv(a2wctrl)

\* the fractional divisor that get_rate uses
PllEffectiveFdiv(frac) == And(frac, A2W_PLL_FRAC_MASK)

PllRateOfRegs(data, mem, parent_rate) ==
  bcm2835_pll_rate_from_divisors(
    parent_rate,
    PllEffectiveNdiv(data, mem[data.a2w_ctrl_reg], mem[data.ana_reg_base + 4]),
    PllEffectiveFdiv(mem[data.frac_reg]),
    PllCtrlPdiv(mem[data.a2w_ctrl_reg]))

PllGetRateReads(s, data) ==
  cprman_read(cprman_read(cprman_read(s, data.a2w_ctrl_reg), data.frac_reg),
              data.ana_reg_base + 4)

bcm2835_pll_get_rate(s, data, parent_rate) ==
  IF parent_rate = Zero
  THEN Return(cprman_read(s, data.a2w_ctrl_reg), 0, Zero, Zero)
  ELSE Return(PllGetRateReads(s, data), 0, PllRateOfRegs(data, s.mem, parent_rate), Zero)

\* rate < data->min_rate || rate > data->max_rate (variant: the lower limit only)
PllRateBelowSpec(data, rate) == Lt(rate, data.min_rate)

PllRateOutOfSpec(data, rate) == Lt(rate, data.min_rate) \/ Lt(data.max_rate, rate)

\* rate > data->max_fb_rate
PllUseFbPrediv(data, rate) == Lt(data.max_fb_rate, rate)

\* the rate the divisor is computed from (variant: never halved)
PllRateUsedWhole(data, rate) == rate

PllRateUsed(data, rate) == IF PllUseFbPrediv(data, rate) THEN Shr(rate, 1) ELSE rate

\* anaN &= ~data->ana->maskN; anaN |= data->ana->setN
PllAnaBits(ana, mask, set) == Or(And(ana, Not32(mask)), set)

\* the test and update of the pre-divider bit in ana1
PllAnaPrediv(data, ana1, use_fb_prediv) ==
  IF And(ana1, BIT(data.ana.fb_prediv_bit)) # Zero /\ ~use_fb_prediv
  THEN [ana1 |-> And(ana1, Not32(BIT(data.ana.fb_prediv_bit))), do_ana_setup_first |-> TRUE]
  ELSE IF And(ana1, BIT(data.ana.fb_prediv_bit)) = Zero /\ use_fb_prediv
  THEN [ana1 |-> Or(ana1, BIT(data.ana.fb_prediv_bit)), do_ana_setup_first |-> FALSE]
  ELSE [ana1 |-> ana1, do_ana_setup_first |-> TRUE]

PllReadAna(s, data) ==
  cprman_read(cprman_read(cprman_read(cprman_read(s, data.ana_reg_base + 12),
                                      data.ana_reg_base + 8),
                          data.ana_reg_base + 4),
              data.ana_reg_base + 0)

PllWriteAna(s, data, ana0, ana1, ana2, ana3) ==
  cprman_write(cprman_write(cprman_write(cprman_write(s, data.ana_reg_base + 12, ana3),
                                         data.ana_reg_base + 8, ana2),
                            data.ana_reg_base + 4, ana1),
               data.ana_reg_base + 0, ana0)

\* Unmask the reference clock from the oscillator
PllUnmaskReference(s, data) ==
  cprman_write(cprman_read(s, A2W_XOSC_CTRL), A2W_XOSC_CTRL,
               Or(s.mem[A2W_XOSC_CTRL], data.reference_enable_mask))

PllCtrlWord(a2wctrl, ndiv, pdiv) ==
  Or(Or(And(a2wctrl, Not32(Or(A2W_PLL_CTRL_NDIV_MASK, A2W_PLL_CTRL_PDIV_MASK))),
        Shl32(ndiv, A2W_PLL_CTRL_NDIV_SHIFT)),
     Shl32(pdiv, A2W_PLL_CTRL_PDIV_SHIFT))

\* Set the PLL multiplier from the oscillator
PllWriteCtrl(s, data, ndiv, pdiv) ==
  cprman_write(cprman_read(s, data.a2w_ctrl_reg), data.a2w_ctrl_reg,
               PllCtrlWord(s.mem[data.a2w_ctrl_reg], ndiv, pdiv))

PllWriteDivisors(s, data, nf) ==
  PllWriteCtrl(cprman_write(s, data.frac_reg, nf.fdiv), data, nf.ndiv, U(1))

PllSetRateEnd(s, data, parent_rate) ==
  Return(bcm2835_pll_get_rate(s, data, parent_rate), 0, Zero, Zero)

\* bcm2835_pll_set_rate with the reference unmasked after the other writes
PllSetRateUnmaskLast(s, data, parent_rate, nf, ana0, a1, ana2, ana3) ==
  IF a1.do_ana_setup_first
  THEN PllSetRateEnd(
         PllUnmaskReference(PllWriteDivisors(PllWriteAna(s, data, ana0, a1.ana1,
                                                         ana2, ana3), data, nf), data),
         data, parent_rate)
  ELSE PllSetRateEnd(
         PllUnmaskReference(PllWriteAna(PllWriteDivisors(s, data, nf), data,
                                        ana0, a1.ana1, ana2, ana3), data),
         data, parent_rate)

PllSetRateWrites(s, data, parent_rate, nf, ana0, a1, ana2, ana3) ==
  IF a1.do_ana_setup_first
  THEN PllSetRateEnd(
         PllWriteDivisors(PllWriteAna(PllUnmaskReference(s, data), data,
                                      ana0, a1.ana1, ana2, ana3), data, nf),
         data, parent_rate)
  ELSE PllSetRateEnd(
         PllWriteAna(PllWriteDivisors(PllUnmaskReference(s, data), data, nf), data,
                     ana0, a1.ana1, ana2, ana3),
         data, parent_rate)

PllSetRateAna(s, data, rate, parent_rate, mem) ==
  PllSetRateWrites(
    s, data, parent_rate,
    bcm2835_pll_choose_ndiv_and_fdiv(PllRateUsed(data, rate), parent_rate),
    PllAnaBits(mem[data.ana_reg_base + 0], data.ana.mask0, data.ana.set0),
    PllAnaPrediv(data,
                 PllAnaBits(mem[data.ana_reg_base + 4], data.ana.mask1, data.ana.set1),
                 PllUseFbPrediv(data, rate)),
    mem[data.ana_reg_base + 8],
    PllAnaBits(mem[data.ana_reg_base + 12], data.ana.mask3, data.ana.set3))

bcm2835_pll_set_rate(s, data, rate, parent_rate) ==
  IF PllRateOutOfSpec(data, rate)
  THEN Return(s, 0 - EINVAL, Zero, Zero)
  ELSE PllSetRateAna(PllReadAna(s, data), data, rate, parent_rate, s.mem)

\* return cprman_read(a2w_ctrl_reg) & A2W_PLL_CTRL_PRST_DISABLE, as an int
bcm2835_pll_is_on(s, data) ==
  Return(cprman_read(s, data.a2w_ctrl_reg),
         Val(And(s.mem[data.a2w_ctrl_reg], A2W_PLL_CTRL_PRST_DISABLE)), Zero, Zero)

\* cprman_write(cm_ctrl_reg, CM_PLL_ANARST); cprman_write(a2w_ctrl_reg, PWRDN);
\* the hardware drops the lock of a PLL that is held in reset
bcm2835_pll_off(s, data) ==
  Return([cprman_write(cprman_write(s, data.cm_ctrl_reg, CM_PLL_ANARST),
                       data.a2w_ctrl_reg, A2W_PLL_CTRL_PWRDN)
            EXCEPT !.mem[CM_LOCK] = And(@, Not32(data.lock_mask))],
         0, Zero, Zero)

\* the hardware raises the lock bit when the PLL has locked
HwPllLocked(s, data) == [s EXCEPT !.mem[CM_LOCK] = Or(@, data.lock_mask)]

\* the polls of the loop: one that sees the PLL unlocked if it is, and the one
\* that sees it locked
PllWaitLock(s, data) ==
  IF And(s.mem[CM_LOCK], data.lock_mask) = Zero
  THEN cprman_read(HwPllLocked(cprman_read(s, CM_LOCK), data), CM_LOCK)
  ELSE cprman_read(s, CM_LOCK)

\* cprman_write(cm_ctrl_reg, cprman_read(cm_ctrl_reg) & ~CM_PLL_ANARST)
PllReleaseReset(s, data) ==
  cprman_write(cprman_read(s, data.cm_ctrl_reg), data.cm_ctrl_reg,
               And(s.mem[data.cm_ctrl_reg], Not32(CM_PLL_ANARST)))

\* variant: the lock is awaited before the reset is released
PllOnWaitFirst(s, data) ==
  Return(PllReleaseReset(PllWaitLock(s, data), data), 0, Zero, Zero)

bcm2835_pll_on(s, data) ==
  Return(PllWaitLock(PllReleaseReset(s, data), data), 0, Zero, Zero)

(***************************************************************************)
(* PLL channel divider operations (bcm2835_pll_divider_clk_ops).           *)
(***************************************************************************)
bcm2835_pll_divider_is_on(s, data) ==
  Return(cprman_read(s, data.a2w_reg),
         IF And(s.mem[data.a2w_reg], A2W_PLL_CHANNEL_DISABLE) = Zero THEN 1 ELSE 0,
         Zero, Zero)

\* div &= (1 << A2W_PLL_DIV_BITS) - 1; if (div == 0) div = 256
\* (variant: a raw 0 divides by 1)
PllDividerDivOne(raw) ==
  IF And(raw, U(2^A2W_PLL_DIV_BITS - 1)) = Zero THEN U(1)
  ELSE And(raw, U(2^A2W_PLL_DIV_BITS - 1))

PllDividerDiv(raw) ==
  IF And(raw, U(2^A2W_PLL_DIV_BITS - 1)) = Zero THEN U(256)
  ELSE And(raw, U(2^A2W_PLL_DIV_BITS - 1))

bcm2835_pll_divider_get_rate(s, data, parent_rate) ==
  Return(cprman_read(s, data.a2w_reg), 0,
         do_div(parent_rate, PllDividerDiv(s.mem[data.a2w_reg])),
         PllDividerDiv(s.mem[data.a2w_reg]))

DividerHold(s, data) ==
  cprman_write(cprman_read(s, data.cm_reg), data.cm_reg,
               Or(And(s.mem[data.cm_reg], Not32(data.load_mask)), data.hold_mask))

bcm2835_pll_divider_off(s, data) ==
  Return(cprman_write(DividerHold(s, data), data.a2w_reg, A2W_PLL_CHANNEL_DISABLE),
         0, Zero, Zero)

DividerChannelEnable(s, data) ==
  cprman_write(cprman_read(s, data.a2w_reg), data.a2w_reg,
               And(s.mem[data.a2w_reg], Not32(A2W_PLL_CHANNEL_DISABLE)))

DividerRelease(s, data) ==
  cprman_write(cprman_read(s, data.cm_reg), data.cm_reg,
               And(s.mem[data.cm_reg], Not32(data.hold_mask)))

\* variant: the hold is released before the channel is enabled
DividerOnReleaseFirst(s, data) ==
  Return(DividerChannelEnable(DividerRelease(s, data), data), 0, Zero, Zero)

bcm2835_pll_divider_on(s, data) ==
  Return(DividerRelease(DividerChannelEnable(s, data), data), 0, Zero, Zero)

(***************************************************************************)
(* Peripheral clock operations (bcm2835_clock_clk_ops).                    *)
(***************************************************************************)
bcm2835_clock_is_on(s, data) ==
  IF data.is_nonstop THEN Return(s, 1, Zero, Zero)
  ELSE Return(cprman_read(s, data.ctl_reg),
              IF And(s.mem[data.ctl_reg], CM_ENABLE) # Zero THEN 1 ELSE 0, Zero, Zero)

\* (1 << (CM_DIV_FRAC_BITS - data->frac_bits)) - 1
UnusedFracMask(data) == U(2^(CM_DIV_FRAC_BITS - data.frac_bits) - 1)

\* Round and mask off the unused bits
ClockDivRound(div, unused_frac_mask) ==
  IF unused_frac_mask # Zero
  THEN And(Add32(div, Shr(unused_frac_mask, 1)), Not32(unused_frac_mask))
  ELSE div

\* the lower and the upper limit of the divisor
ClockDivMin(data) == Add32(UnusedFracMask(data), U(1))

ClockDivMax(data) ==
  And(U(2^(data.int_bits + CM_DIV_FRAC_BITS) - 1), Not32(UnusedFracMask(data)))

max(a, b) == IF Lt(a, b) THEN b ELSE a

min(a, b) == IF Lt(b, a) THEN b ELSE a

\* Clamp to the limits (variant: to the upper limit only)
ClockDivClampMax(data, div) == min(div, ClockDivMax(data))

ClockDivClamp(data, div) == min(max(div, ClockDivMin(data)), ClockDivMax(data))

bcm2835_clock_choose_div(data, rate, parent_rate) ==
  ClockDivClamp(data,
                ClockDivRound(Trunc32(do_div(Shl64(parent_rate, CM_DIV_FRAC_BITS), rate)),
                              UnusedFracMask(data)))

\* div >>= CM_DIV_FRAC_BITS - data->frac_bits; div &= (1 << (int_bits + frac_bits)) - 1
ClockDivField(data, div) ==
  And(Shr(div, CM_DIV_FRAC_BITS - data.frac_bits),
      U(2^(data.int_bits + data.frac_bits) - 1))

ClockRateOfField(data, parent_rate, field) ==
  IF field = Zero THEN Zero
  ELSE Trunc32(do_div(Shl64(parent_rate, data.frac_bits), field))

bcm2835_clock_rate_from_divisor(data, parent_rate, div) ==
  ClockRateOfField(data, parent_rate, ClockDivField(data, div))

ClockRoundRateOf(s, data, parent_rate, div) ==
  Return(s, 0, bcm2835_clock_rate_from_divisor(data, parent_rate, div), div)

bcm2835_clock_round_rate(s, data, rate, parent_rate) ==
  ClockRoundRateOf(s, data, parent_rate, bcm2835_clock_choose_div(data, rate, parent_rate))

bcm2835_clock_get_rate(s, data, parent_rate) ==
  Return(cprman_read(s, data.div_reg), 0,
         bcm2835_clock_rate_from_divisor(data, parent_rate, s.mem[data.div_reg]),
         s.mem[data.div_reg])

\* the hardware lowers BUSY when the divider has completed its cycle
HwDividerCycleDone(s, data) ==
  [s EXCEPT !.mem[data.ctl_reg] = And(@, Not32(CM_BUSY))]

\* variant: the operation does not wait for BUSY
ClockNoWait(s, data) == s

\* the polls of the loop: one that sees BUSY high if it is, and the one that sees it low
bcm2835_clock_wait_busy(s, data) ==
  IF And(s.mem[data.ctl_reg], CM_BUSY) # Zero
  THEN cprman_read(HwDividerCycleDone(cprman_read(s, data.ctl_reg), data), data.ctl_reg)
  ELSE cprman_read(s, data.ctl_reg)

ClockDisable(s, data) ==
  spin_unlock(cprman_write(cprman_read(spin_lock(s), data.ctl_reg), data.ctl_reg,
                           And(s.mem[data.ctl_reg], Not32(CM_ENABLE))))

\* variant: is_nonstop is not looked at
ClockOffAlways(s, data) ==
  Return(bcm2835_clock_wait_busy(ClockDisable(s, data), data), 0, Zero, Zero)

bcm2835_clock_off(s, data) ==
  IF data.is_nonstop THEN Return(s, 0, Zero, Zero)
  ELSE Return(bcm2835_clock_wait_busy(ClockDisable(s, data), data), 0, Zero, Zero)

\* variant: the gate bit is left alone
ClockEnableOnly(s, data) ==
  spin_unlock(cprman_write(cprman_read(spin_lock(s), data.ctl_reg), data.ctl_reg,
                           Or(s.mem[data.ctl_reg], CM_ENABLE)))

ClockEnable(s, data) ==
  spin_unlock(cprman_write(cprman_read(spin_lock(s), data.ctl_reg), data.ctl_reg,
                           Or(Or(s.mem[data.ctl_reg], CM_ENABLE), CM_GATE)))

bcm2835_clock_on(s, data) ==
  IF data.is_nonstop THEN Return(s, 0, Zero, Zero)
  ELSE Return(ClockEnable(s, data), 0, Zero, Zero)

\* the divisor written with a load pulse on the control register
ClockWriteDivPulse(s, data, div) ==
  Return(cprman_write(cprman_write(s, data.div_reg, div), data.ctl_reg,
                      Or(s.mem[data.ctl_reg], CM_GATE)),
         0, Zero, div)

ClockWriteDiv(s, data, div) == Return(cprman_write(s, data.div_reg, div), 0, Zero, div)

\* variant: the quotient is written as computed, neither rounded nor clamped
ClockSetRateUnrounded(s, data, rate, parent_rate) ==
  ClockWriteDiv(s, data, Trunc32(do_div(Shl64(parent_rate, CM_DIV_FRAC_BITS), rate)))

bcm2835_clock_set_rate(s, data, rate, parent_rate) ==
  ClockWriteDiv(s, data, bcm2835_clock_choose_div(data, rate, parent_rate))

(***************************************************************************)
(* The rate of a PLL channel divider is set by the generic divider of the  *)
(* clock framework, which is handed the address of the channel register,   *)
(* the position of the divisor field and the register lock.  The generic   *)
(* divider and the fixed-factor clock are modelled after their description.*)
(***************************************************************************)
\* a store of the generic code to a register address: the value is stored as
\* it is, and the hardware ignores a write that lacks the password
writel(s, reg, val) ==
  [s EXCEPT !.mem[reg] = IF Shr(val, 24) = Shr(CM_PASSWORD, 24) THEN val ELSE @,
            !.log = Append(@, Access("w", reg, val))]

\* the integer nearest to parent_rate / rate, clamped to 1..255
ClkDividerNearest(rate, parent_rate) ==
  LET div == do_div(Add64(parent_rate, Shr(rate, 1)), rate)
  IN  IF Lt(div, U(1)) THEN U(1) ELSE IF Lt(U(2^A2W_PLL_DIV_BITS - 1), div)
      THEN U(2^A2W_PLL_DIV_BITS - 1) ELSE div

\* the divisor replaces the field of div.width bits at div.shift, under div.lock
ClkDividerWrite(s, reg, div) ==
  spin_unlock(writel(cprman_read(spin_lock(s), reg), reg,
                     Or(And(s.mem[reg], Not32(U(2^A2W_PLL_DIV_BITS - 1))), div)))

clk_divider_set_rate(s, data, rate, parent_rate) ==
  ClkDividerWrite(s, data.a2w_reg, ClkDividerNearest(rate, parent_rate))

\* cm = cprman_read(cm_reg); cprman_write(cm_reg, cm | load_mask);
\* cprman_write(cm_reg, cm & ~load_mask)
\* (variant: the load bit is cleared first and set last)
DividerLoadPulseInverted(s, data) ==
  cprman_write(cprman_write(cprman_read(s, data.cm_reg), data.cm_reg,
                            And(s.mem[data.cm_reg], Not32(data.load_mask))),
               data.cm_reg, Or(s.mem[data.cm_reg], data.load_mask))

DividerLoadPulse(s, data) ==
  cprman_write(cprman_write(cprman_read(s, data.cm_reg), data.cm_reg,
                            Or(s.mem[data.cm_reg], data.load_mask)),
               data.cm_reg, And(s.mem[data.cm_reg], Not32(data.load_mask)))

bcm2835_pll_divider_set_rate(s, data, rate, parent_rate) ==
  Return(DividerLoadPulse(clk_divider_set_rate(s, data, rate, parent_rate), data),
         0, Zero, ClkDividerNearest(rate, parent_rate))

\* the rate of a fixed-factor clock: parent_rate * mult / div
clk_factor_recalc_rate(parent_rate, mult, div) ==
  Trunc32(do_div(MulL(parent_rate, mult), U(div)))

\* the rate of the clock registered under the name of the channel: the divider
\* itself (variant: for every channel), or a fixed factor 1 / fixed_divider on
\* top of the divider when fixed_divider is not 1
PllDividerNodeRateBare(data, rate) == rate

PllDividerNodeRate(data, rate) ==
  IF data.fixed_divider # 1 THEN clk_factor_recalc_rate(rate, 1, data.fixed_divider)
  ELSE rate

PllDividerNodeGetRate(res, data) ==
  [res EXCEPT !.ret = PllDividerNodeRate(data, res.ret)]

(***************************************************************************)
(* The state machine.  hw is the clock of the tree that is exercised: the  *)
(* operations act on it, and those of a PLL include reading the rates of   *)
(* its channels.  regs is the register block, call the last completed      *)
(* call with the register accesses it made, and prog the arguments of the  *)
(* last set_rate that the PLL accepted.                                    *)
(***************************************************************************)
MaxSample == 2

\* the rate of the crystal oscillator that feeds the PLLs
OscRates == {Hz(19, 200000)}

PllSample(k) == Hz(600 + 700 * k, 333333 * k)

PllRates(data) ==
  {Sub32(data.min_rate, U(1)), data.min_rate, data.max_fb_rate,
   Add32(data.max_fb_rate, U(1)), data.max_rate, Add32(data.max_rate, U(1))}
  \cup {PllSample(k) : k \in 1..MaxSample}

\* register contents left by the firmware: all clear, a running tree, all set
Priors == {"reset", "running", "ones"}

AnaRegs == UNION {PllRegs(p) \ {bcm2835_pll_data[p].cm_ctrl_reg,
                                bcm2835_pll_data[p].a2w_ctrl_reg,
                                bcm2835_pll_data[p].frac_reg} : p \in Plls}

RunningValue(r) ==
  IF r \in AnaRegs THEN U(\Habcdef)
  ELSE IF r \in {bcm2835_pll_data[p].a2w_ctrl_reg : p \in Plls} THEN U(\H22064)
  ELSE IF r \in {bcm2835_pll_data[p].frac_reg : p \in Plls} THEN U(\H12345)
  ELSE IF r \in {bcm2835_pll_data[p].cm_ctrl_reg : p \in Plls} THEN U(\H2aa)
  ELSE IF r = A2W_XOSC_CTRL THEN U(\H04)
  ELSE IF r = CM_LOCK THEN U(\H1f00)
  ELSE IF r \in {bcm2835_pll_divider_data[d].a2w_reg : d \in Dividers} THEN U(4)
  ELSE IF r \in {bcm2835_clock_data[c].ctl_reg : c \in Clocks} THEN U(\H91)
  ELSE U(\H4000)

PriorRegs(prior) ==
  [r \in Regs |-> IF prior = "reset" THEN Zero
                  ELSE IF prior = "running" THEN RunningValue(r)
                  ELSE U(\Hffffff)]

NoCall ==
  [fn |-> "none", node |-> "none", rate |-> Zero, parent_rate |-> Zero,
   err |-> 0, ret |-> Zero, div |-> Zero, log |-> <<>>]

NoProg == [rate |-> Zero, parent_rate |-> Zero]

\* the threads that call the firmware
FwCallers == {"t1", "t2", "t3"}

\* the firmware transport at rest: transaction_lock free, the completion not
\* done, no message in the mailbox, no caller inside a transaction
FwInit ==
  [lock |-> "none", done |-> 0, mbox |-> <<>>, started |-> 0,
   pc |-> [t \in FwCallers |-> "idle"],
   ret |-> [t \in FwCallers |-> 0],
   req |-> [t \in FwCallers |-> "none"]]

\* a firmware clock after devm_kzalloc, before any call of its clk_ops; fw_on is
\* the state of the clock in the firmware
RpiInit ==
  [last_rate |-> 0, fn |-> "none", rate |-> 0, sent |-> FALSE, ret |-> 0,
   reply |-> 0, err |-> 0, result |-> 0, fw_on |-> FALSE]

\* the threads that call clk_ops, or the firmware property interface, concurrently
Threads == {"a", "b"}

\* no thread is inside a call and the register lock is free
RunInit ==
  [lock |-> "none",
   th |-> [t \in Threads |->
             [op |-> "none", node |-> "none", pc |-> 0, val |-> Zero,
              div |-> Zero]]]

\* no clock provider has been probed: onecell is the table of the provider
\* whose probe ran last, alloc the entries allocated for onecell->clks, written
\* the indices stored, i the position of the probe in its table
NoOnecell ==
  [provider |-> "none", pc |-> "idle", clk_num |-> 0, alloc |-> 0, written |-> {},
   i |-> 0, ret |-> 0, added |-> FALSE]

\* the firmware device before its first probe: the global pointer firmware is
\* NULL; pc, ret and sent are the callers of raspberrypi_firmware_property
BindInit ==
  [firmware |-> "null", chan |-> "null", c |-> "none", probe |-> "idle",
   remove |-> "idle", pc |-> [t \in Threads |-> "idle"],
   ret |-> [t \in Threads |-> 0], sent |-> [t \in Threads |-> <<>>],
   onecell |-> NoOnecell]

Init ==
  /\ hw \in Plls \cup Dividers \cup Clocks
  /\ regs \in {PriorRegs(prior) : prior \in Priors}
  /\ call = NoCall
  /\ prog = NoProg
  /\ fw = FwInit
  /\ rpi = RpiInit
  /\ run = RunInit
  /\ bind = BindInit

Begin == [mem |-> regs, log |-> <<>>]

\* the call fn(node, rate, parent_rate) has run to its end res
Complete(fn, node, rate, parent_rate, res) ==
  /\ regs' = res.mem
  /\ call' = [fn |-> fn, node |-> node, rate |-> rate, parent_rate |-> parent_rate,
              err |-> res.err, ret |-> res.ret, div |-> res.div, log |-> res.log]
  /\ hw' = hw
  /\ UNCHANGED <<fw, rpi, run, bind>>

PllSetRateDone(p, rate, parent_rate, res) ==
  /\ Complete("pll_set_rate", p, rate, parent_rate, res)
  /\ prog' = IF res.err = 0 THEN [rate |-> rate, parent_rate |-> parent_rate] ELSE prog

PllSetRate ==
  \E p \in {hw} \cap Plls :
    \E rate \in PllRates(bcm2835_pll_data[p]), parent_rate \in OscRates :
      PllSetRateDone(p, rate, parent_rate,
                     bcm2835_pll_set_rate(Begin, bcm2835_pll_data[p], rate, parent_rate))

PllGetRate ==
  \E p \in {hw} \cap Plls :
    \E parent_rate \in OscRates \cup {Zero} :
      /\ Complete("pll_get_rate", p, Zero, parent_rate,
                  bcm2835_pll_get_rate(Begin, bcm2835_pll_data[p], parent_rate))
      /\ UNCHANGED prog

PllRoundRate ==
  \E p \in {hw} \cap Plls :
    \E rate \in PllRates(bcm2835_pll_data[p]), parent_rate \in OscRates :
      /\ Complete("pll_round_rate", p, rate, parent_rate,
                  Return(Begin, 0, bcm2835_pll_round_rate(rate, parent_rate), Zero))
      /\ UNCHANGED prog

\* the channels whose rate the exercised clock lets read
Channels ==
  IF hw \in Dividers THEN {hw}
  ELSE {d \in Dividers : bcm2835_pll_divider_data[d].source_pll = hw}

\* the clock framework hands a channel the rate its PLL reports
ChannelParentRates(d) ==
  {PllRateOfRegs(bcm2835_pll_data[bcm2835_pll_divider_data[d].source_pll], regs, osc) :
     osc \in OscRates}

DividerGetRate ==
  \E d \in Channels :
    \E parent_rate \in ChannelParentRates(d) :
      /\ Complete("divider_get_rate", d, Zero, parent_rate,
                  bcm2835_pll_divider_get_rate(Begin, bcm2835_pll_divider_data[d],
                                               parent_rate))
      /\ UNCHANGED prog

DividerOn ==
  \E d \in {hw} \cap Dividers :
    /\ Complete("divider_on", d, Zero, Zero,
                bcm2835_pll_divider_on(Begin, bcm2835_pll_divider_data[d]))
    /\ UNCHANGED prog

DividerOff ==
  \E d \in {hw} \cap Dividers :
    /\ Complete("divider_off", d, Zero, Zero,
                bcm2835_pll_divider_off(Begin, bcm2835_pll_divider_data[d]))
    /\ UNCHANGED prog

DividerIsOn ==
  \E d \in {hw} \cap Dividers :
    /\ Complete("divider_is_on", d, Zero, Zero,
                bcm2835_pll_divider_is_on(Begin, bcm2835_pll_divider_data[d]))
    /\ UNCHANGED prog

ClockRates == {U(1), Hz(48, 0)}

ClockParentRates == {Hz(19, 200000), Hz(500, 0)}

ClockIsOn ==
  \E c \in {hw} \cap Clocks :
    /\ Complete("clock_is_on", c, Zero, Zero,
                bcm2835_clock_is_on(Begin, bcm2835_clock_data[c]))
    /\ UNCHANGED prog

ClockOn ==
  \E c \in {hw} \cap Clocks :
    /\ Complete("clock_on", c, Zero, Zero, bcm2835_clock_on(Begin, bcm2835_clock_data[c]))
    /\ UNCHANGED prog

ClockOff ==
  \E c \in {hw} \cap Clocks :
    /\ Complete("clock_off", c, Zero, Zero, bcm2835_clock_off(Begin, bcm2835_clock_data[c]))
    /\ UNCHANGED prog

ClockSetRate ==
  \E c \in {hw} \cap Clocks :
    \E rate \in ClockRates, parent_rate \in ClockParentRates :
      /\ Complete("clock_set_rate", c, rate, parent_rate,
                  bcm2835_clock_set_rate(Begin, bcm2835_clock_data[c], rate, parent_rate))
      /\ UNCHANGED prog

ClockGetRate ==
  \E c \in {hw} \cap Clocks :
    \E parent_rate \in ClockParentRates :
      /\ Complete("clock_get_rate", c, Zero, parent_rate,
                  bcm2835_clock_get_rate(Begin, bcm2835_clock_data[c], parent_rate))
      /\ UNCHANGED prog

Next ==
  \/ PllSetRate
  \/ PllGetRate
  \/ PllRoundRate
  \/ DividerGetRate
  \/ DividerOn
  \/ DividerOff
  \/ DividerIsOn
  \/ ClockIsOn
  \/ ClockOn
  \/ ClockOff
  \/ ClockSetRate
  \/ ClockGetRate

Spec == Init /\ [][Next]_vars

(***************************************************************************)
(* The divisor arithmetic of the peripheral clocks on its own: the rate    *)
(* and the parent rate of one round_rate call are drawn at the start, and  *)
(* the call is applied to them.                                            *)
(***************************************************************************)
MaxRoundSample == 3

RoundSample(k) == Hz(1100 * k, 333333 * k)

RoundRates ==
  {U(1), U(3), U(476), U(477), Hz(31, 250001), Hz(48, 0), Hz(100, 0), Hz(250, 0)}
  \cup {RoundSample(k) : k \in 1..MaxRoundSample}

RoundParentRates == {U(32768), Hz(19, 200000), Hz(500, 0), Hz(1920, 0)}

InitRound ==
  /\ hw \in Clocks
  /\ regs = PriorRegs("reset")
  /\ call \in {[NoCall EXCEPT !.rate = rate, !.parent_rate = parent_rate] :
                 rate \in RoundRates, parent_rate \in RoundParentRates}
  /\ prog = NoProg
  /\ fw = FwInit
  /\ rpi = RpiInit
  /\ run = RunInit
  /\ bind = BindInit

ClockRoundRate ==
  /\ call.fn = "none"
  /\ Complete("clock_round_rate", hw, call.rate, call.parent_rate,
              bcm2835_clock_round_rate(Begin, bcm2835_clock_data[hw],
                                       call.rate, call.parent_rate))
  /\ UNCHANGED prog

NextRound == ClockRoundRate

SpecRound == InitRound /\ [][NextRound]_vars

(***************************************************************************)
(* Rate setting of the peripheral clocks on the drawn rate and parent      *)
(* rate: set_rate is applied to them and get_rate reads the divisor back   *)
(* with the same parent rate.                                              *)
(***************************************************************************)
ClockSetRateDrawn ==
  /\ call.fn = "none"
  /\ Complete("clock_set_rate", hw, call.rate, call.parent_rate,
              bcm2835_clock_set_rate(Begin, bcm2835_clock_data[hw],
                                     call.rate, call.parent_rate))
  /\ UNCHANGED prog

ClockGetRateAfter ==
  /\ call.fn = "clock_set_rate"
  /\ Complete("clock_get_rate", hw, call.rate, call.parent_rate,
              bcm2835_clock_get_rate(Begin, bcm2835_clock_data[hw], call.parent_rate))
  /\ UNCHANGED prog

NextSet == ClockSetRateDrawn \/ ClockGetRateAfter

SpecSet == InitRound /\ [][NextSet]_vars

(***************************************************************************)
(* Gating of the PLLs and rate setting of their channels: the exercised    *)
(* clock is a PLL or a channel divider, and the channels of an exercised   *)
(* PLL are exercised with it.                                              *)
(***************************************************************************)
DividerRates == {U(1), Hz(100, 0), Hz(500, 0)}

InitTree ==
  /\ hw \in Plls \cup Dividers
  /\ regs \in {PriorRegs(prior) : prior \in Priors}
  /\ call = NoCall
  /\ prog = NoProg
  /\ fw = FwInit
  /\ rpi = RpiInit
  /\ run = RunInit
  /\ bind = BindInit

PllOn ==
  \E p \in {hw} \cap Plls :
    /\ Complete("pll_on", p, Zero, Zero, bcm2835_pll_on(Begin, bcm2835_pll_data[p]))
    /\ UNCHANGED prog

PllOff ==
  \E p \in {hw} \cap Plls :
    /\ Complete("pll_off", p, Zero, Zero, bcm2835_pll_off(Begin, bcm2835_pll_data[p]))
    /\ UNCHANGED prog

DividerSetRate ==
  \E d \in Channels :
    \E rate \in DividerRates, parent_rate \in ChannelParentRates(d) :
      /\ Complete("divider_set_rate", d, rate, parent_rate,
                  bcm2835_pll_divider_set_rate(Begin, bcm2835_pll_divider_data[d],
                                               rate, parent_rate))
      /\ UNCHANGED prog

\* get_rate of the clock registered under the name of the channel
DividerNodeGetRate ==
  \E d \in Channels :
    \E parent_rate \in ChannelParentRates(d) :
      /\ Complete("divider_node_get_rate", d, Zero, parent_rate,
                  PllDividerNodeGetRate(
                    bcm2835_pll_divider_get_rate(Begin, bcm2835_pll_divider_data[d],
                                                 parent_rate),
                    bcm2835_pll_divider_data[d]))
      /\ UNCHANGED prog

NextTree ==
  \/ PllOn
  \/ PllOff
  \/ DividerSetRate
  \/ DividerNodeGetRate

SpecTree == InitTree /\ [][NextTree]_vars

(***************************************************************************)
(* Switching off and on.  A PLL or a channel divider is switched off and   *)
(* on again between calls that set and read its rate.                      *)
(***************************************************************************)
\* a PLL of a running tree, or a channel divider with any register contents
InitPower ==
  /\ hw \in Plls \cup Dividers
  /\ regs \in {PriorRegs(prior) : prior \in IF hw \in Plls THEN {"running"} ELSE Priors}
  /\ call = NoCall
  /\ prog = NoProg
  /\ fw = FwInit
  /\ rpi = RpiInit
  /\ run = RunInit
  /\ bind = BindInit

PllIsOn ==
  \E p \in {hw} \cap Plls :
    /\ Complete("pll_is_on", p, Zero, Zero,
                bcm2835_pll_is_on(Begin, bcm2835_pll_data[p]))
    /\ UNCHANGED prog

NextPower ==
  \/ PllSetRate
  \/ PllGetRate
  \/ PllOff
  \/ PllOn
  \/ PllIsOn
  \/ DividerOff
  \/ DividerOn
  \/ DividerGetRate

SpecPower == InitPower /\ [][NextPower]_vars

(***************************************************************************)
(* The firmware mailbox transport (raspberrypi_firmware_transaction) under *)
(* concurrent callers.  fw.pc is the statement each caller is at, fw.mbox  *)
(* the requests handed to the mailbox and not yet answered, fw.done the    *)
(* count of the completion, fw.req the fate of each caller's request.      *)
(***************************************************************************)
MaxTransactions == 3

InitFw ==
  /\ hw = "plla"
  /\ regs = PriorRegs("reset")
  /\ call = NoCall
  /\ prog = NoProg
  /\ fw = FwInit
  /\ rpi = RpiInit
  /\ run = RunInit
  /\ bind = BindInit

\* mutex_lock(&transaction_lock) returns when no caller holds the mutex
\* (variant: there is no mutex)
MutexNone(f) == TRUE

MutexFree(f) == f.lock = "none"

FwMutexLock(t) ==
  /\ fw.pc[t] = "idle"
  /\ fw.started < MaxTransactions
  /\ MutexFree(fw)
  /\ fw' = [fw EXCEPT !.lock = t, !.started = @ + 1, !.pc[t] = "reinit",
                      !.ret[t] = 0, !.req[t] = "none"]
  /\ UNCHANGED <<regs, hw, call, prog, rpi, run, bind>>

\* reinit_completion(&firmware->c)
FwReinit(t) ==
  /\ fw.pc[t] = "reinit"
  /\ fw' = [fw EXCEPT !.done = 0, !.pc[t] = "send"]
  /\ UNCHANGED <<regs, hw, call, prog, rpi, run, bind>>

\* ret = mbox_send_message(firmware->chan, &message): the message is queued
\* (ret >= 0) or refused (ret < 0)
FwSend(t) ==
  /\ fw.pc[t] = "send"
  /\ \/ fw' = [fw EXCEPT !.mbox = Append(@, t), !.req[t] = "sent", !.pc[t] = "wait"]
     \/ fw' = [fw EXCEPT !.ret[t] = 0 - EINVAL, !.pc[t] = "unlock"]
  /\ UNCHANGED <<regs, hw, call, prog, rpi, run, bind>>

\* the firmware answers the oldest request and the mailbox calls
\* response_callback, which does complete(&firmware->c)
FwRespond ==
  /\ fw.mbox # <<>>
  /\ fw' = [fw EXCEPT !.mbox = Tail(@), !.req[Head(fw.mbox)] = "answered",
                      !.done = @ + 1]
  /\ UNCHANGED <<regs, hw, call, prog, rpi, run, bind>>

\* wait_for_completion(&firmware->c); ret = 0
FwWait(t) ==
  /\ fw.pc[t] = "wait"
  /\ fw.done > 0
  /\ fw' = [fw EXCEPT !.done = @ - 1, !.ret[t] = 0, !.pc[t] = "unlock"]
  /\ UNCHANGED <<regs, hw, call, prog, rpi, run, bind>>

\* mutex_unlock(&transaction_lock); return ret
FwMutexUnlock(t) ==
  /\ fw.pc[t] = "unlock"
  /\ fw' = [fw EXCEPT !.lock = "none", !.pc[t] = "idle"]
  /\ UNCHANGED <<regs, hw, call, prog, rpi, run, bind>>

NextFw ==
  \/ \E t \in FwCallers : FwMutexLock(t)
  \/ \E t \in FwCallers : FwReinit(t)
  \/ \E t \in FwCallers : FwSend(t)
  \/ FwRespond
  \/ \E t \in FwCallers : FwWait(t)
  \/ \E t \in FwCallers : FwMutexUnlock(t)

SpecFw == InitFw /\ [][NextFw]_vars

(***************************************************************************)
(* The firmware clocks (clk-raspberrypi): the rate is set and read through *)
(* the firmware property interface and cached in last_rate.  The outcome   *)
(* of rpi_firmware_property is an input of the call: its return value ret  *)
(* and the rate that the reply carries in packet[1].                       *)
(***************************************************************************)
RPI_FIRMWARE_SET_CLOCK_RATE_ERROR == 0

EPROBE_DEFER == 517

\* the rates asked for and the rates that a reply carries
RpiRates == {0, 125000000, 250000000, 500000000}

\* the values that rpi_firmware_property returns
RpiTransportRets == {0, 0 - EINVAL, 0 - EPROBE_DEFER}

rpi_clk_get_rate(c, ret, reply) ==
  IF ret # 0
    THEN [c EXCEPT !.fn = "get_rate", !.rate = 0, !.sent = TRUE, !.ret = ret,
                   !.reply = reply, !.err = 0, !.result = 0]
    ELSE [c EXCEPT !.fn = "get_rate", !.rate = 0, !.sent = TRUE, !.ret = ret,
                   !.reply = reply, !.err = 0, !.result = reply,
                   !.last_rate = reply]

rpi_clk_set_rate(c, rate, ret, reply) ==
  IF rate = c.last_rate
    THEN [c EXCEPT !.fn = "set_rate", !.rate = rate, !.sent = FALSE,
                   !.ret = 0, !.reply = 0, !.err = 0, !.result = 0]
    ELSE IF ret # 0 \/ reply = RPI_FIRMWARE_SET_CLOCK_RATE_ERROR
      THEN [c EXCEPT !.fn = "set_rate", !.rate = rate, !.sent = TRUE,
                     !.ret = ret, !.reply = reply, !.err = ret, !.result = 0]
      ELSE [c EXCEPT !.fn = "set_rate", !.rate = rate, !.sent = TRUE,
                     !.ret = ret, !.reply = reply, !.err = 0, !.result = 0,
                     !.last_rate = reply]

\* flagged: the reply carries RPI_FIRMWARE_CLOCK_STATE_ERROR; a request that the
\* firmware answers without the error flag has set the state of the clock
rpi_clk_set_state(c, on, ret, flagged) ==
  IF on = (c.last_rate # 0)
    THEN [c EXCEPT !.fn = IF on THEN "on" ELSE "off", !.rate = 0, !.sent = FALSE,
                   !.ret = 0, !.reply = 0, !.result = 0, !.err = 0]
    ELSE IF ret # 0 \/ flagged
      THEN [c EXCEPT !.fn = IF on THEN "on" ELSE "off", !.rate = 0, !.sent = TRUE,
                     !.ret = ret, !.reply = 0, !.result = 0,
                     !.err = IF ret # 0 THEN ret ELSE 0 - EINVAL]
      ELSE [c EXCEPT !.fn = IF on THEN "on" ELSE "off", !.rate = 0, !.sent = TRUE,
                     !.ret = ret, !.reply = 0, !.result = 0, !.err = 0,
                     !.fw_on = on]

\* rpi_clk_probe has registered the clock and read its rate once
InitRpi ==
  /\ hw = "plla"
  /\ regs = PriorRegs("reset")
  /\ call = NoCall
  /\ prog = NoProg
  /\ fw = FwInit
  /\ run = RunInit
  /\ bind = BindInit
  /\ \E ret \in RpiTransportRets, reply \in RpiRates, on \in BOOLEAN :
       rpi = rpi_clk_get_rate([RpiInit EXCEPT !.fw_on = on], ret, reply)

RpiGetRate ==
  /\ \E ret \in RpiTransportRets, reply \in RpiRates :
       rpi' = rpi_clk_get_rate(rpi, ret, reply)
  /\ UNCHANGED <<regs, hw, call, prog, fw, run, bind>>

RpiSetRate ==
  /\ \E rate \in RpiRates, ret \in RpiTransportRets, reply \in RpiRates :
       rpi' = rpi_clk_set_rate(rpi, rate, ret, reply)
  /\ UNCHANGED <<regs, hw, call, prog, fw, run, bind>>

\* rpi_clk_on: rpi_clk_set_state(hw, true)
RpiOn ==
  /\ \E ret \in RpiTransportRets, flagged \in BOOLEAN :
       rpi' = rpi_clk_set_state(rpi, TRUE, ret, flagged)
  /\ UNCHANGED <<regs, hw, call, prog, fw, run, bind>>

\* rpi_clk_off: rpi_clk_set_state(hw, false)
RpiOff ==
  /\ \E ret \in RpiTransportRets, flagged \in BOOLEAN :
       rpi' = rpi_clk_set_state(rpi, FALSE, ret, flagged)
  /\ UNCHANGED <<regs, hw, call, prog, fw, run, bind>>

NextRpi ==
  \/ RpiGetRate
  \/ RpiSetRate
  \/ RpiOn
  \/ RpiOff

SpecRpi == InitRpi /\ [][NextRpi]_vars

(***************************************************************************)
(* Concurrent calls.  Two threads each make one call of a clk_ops          *)
(* operation, on different nodes of the tree of the PLL hw or on a         *)
(* peripheral clock.  An operation is the sequence of its register         *)
(* accesses and lock operations; a step of a thread is one of them, so     *)
(* that the accesses of the two calls interleave in every order.           *)
(***************************************************************************)
\* one access: k is "lock", "unlock", "read" (val = readl(reg)), "write"
\* (cprman_write(reg, (val & ~clr) | set)), "writel" (the same store without the
\* password) or "poll" (a loop that reads reg until the bits clr are clear and,
\* if set is not 0, a bit of set is set)
Ins(k, reg, clr, set) == [k |-> k, reg |-> reg, clr |-> clr, set |-> set]

ProgPllOn(data) ==
  <<Ins("read", data.cm_ctrl_reg, Zero, Zero),
    Ins("write", data.cm_ctrl_reg, CM_PLL_ANARST, Zero),
    Ins("poll", CM_LOCK, Zero, data.lock_mask)>>

ProgDividerOff(data) ==
  <<Ins("read", data.cm_reg, Zero, Zero),
    Ins("write", data.cm_reg, data.load_mask, data.hold_mask),
    Ins("write", data.a2w_reg, Not32(Zero), A2W_PLL_CHANNEL_DISABLE)>>

ProgDividerOn(data) ==
  <<Ins("read", data.a2w_reg, Zero, Zero),
    Ins("write", data.a2w_reg, A2W_PLL_CHANNEL_DISABLE, Zero),
    Ins("read", data.cm_reg, Zero, Zero),
    Ins("write", data.cm_reg, data.hold_mask, Zero)>>

\* clk_divider_ops.set_rate under the lock, then the load pulse
ProgDividerSetRate(data, div) ==
  <<Ins("lock", 0, Zero, Zero),
    Ins("read", data.a2w_reg, Zero, Zero),
    Ins("writel", data.a2w_reg, U(2^A2W_PLL_DIV_BITS - 1), div),
    Ins("unlock", 0, Zero, Zero),
    Ins("read", data.cm_reg, Zero, Zero),
    Ins("write", data.cm_reg, Zero, data.load_mask),
    Ins("write", data.cm_reg, data.load_mask, Zero)>>

\* variant: the lock is released after the wait for BUSY
ProgClockOffHeld(data) ==
  IF data.is_nonstop THEN <<>>
  ELSE <<Ins("lock", 0, Zero, Zero),
         Ins("read", data.ctl_reg, Zero, Zero),
         Ins("write", data.ctl_reg, CM_ENABLE, Zero),
         Ins("poll", data.ctl_reg, CM_BUSY, Zero),
         Ins("unlock", 0, Zero, Zero)>>

ProgClockOff(data) ==
  IF data.is_nonstop THEN <<>>
  ELSE <<Ins("lock", 0, Zero, Zero),
         Ins("read", data.ctl_reg, Zero, Zero),
         Ins("write", data.ctl_reg, CM_ENABLE, Zero),
         Ins("unlock", 0, Zero, Zero),
         Ins("poll", data.ctl_reg, CM_BUSY, Zero)>>

\* the accesses of the call that thread record th is in
Program(th) ==
  CASE th.op = "pll_on" -> ProgPllOn(bcm2835_pll_data[th.node])
    [] th.op = "divider_off" -> ProgDividerOff(bcm2835_pll_divider_data[th.node])
    [] th.op = "divider_on" -> ProgDividerOn(bcm2835_pll_divider_data[th.node])
    [] th.op = "divider_set_rate" ->
         ProgDividerSetRate(bcm2835_pll_divider_data[th.node], th.div)
    [] th.op = "clock_off" -> ProgClockOff(bcm2835_clock_data[th.node])
    [] OTHER -> <<>>

\* the thread has made its call and the call has returned
Returned(th) == th.op # "none" /\ th.pc > Len(Program(th))

\* variant: the loop gives up and goes on
PollTimeout(v, ins) == TRUE

\* the condition that ends the loop of a poll, v being the value read
PollReady(v, ins) ==
  /\ And(v, ins.clr) = Zero
  /\ ins.set = Zero \/ And(v, ins.set) # Zero

\* the peripheral clocks that the threads disable
RunClocks == {"v3d", "vpu"}

\* the operations that a thread may call, as <<operation, node, divisor>>
RunCalls ==
  {<<"pll_on", hw, Zero>>}
  \cup {<<op, d, Zero>> : op \in {"divider_on", "divider_off"},
                          d \in {c \in Dividers : bcm2835_pll_divider_data[c].source_pll = hw}}
  \cup {<<"divider_set_rate", d, ClkDividerNearest(Hz(500, 0), Hz(1000, 0))>> :
          d \in {c \in Dividers : bcm2835_pll_divider_data[c].source_pll = hw}}
  \cup {<<"clock_off", c, Zero>> : c \in RunClocks}

\* the tree is running, or the PLL has been switched off
InitRun ==
  /\ hw \in Plls
  /\ regs \in {PriorRegs("running"),
               bcm2835_pll_off([mem |-> PriorRegs("running"), log |-> <<>>],
                               bcm2835_pll_data[hw]).mem}
  /\ call = NoCall
  /\ prog = NoProg
  /\ fw = FwInit
  /\ rpi = RpiInit
  /\ run = RunInit
  /\ bind = BindInit

\* the calls that wait for the hardware, and the one that takes the lock besides
RunWaitCalls ==
  {c \in RunCalls : c[1] \in {"pll_on", "clock_off", "divider_set_rate"}}

\* thread t calls an operation of a node that no other thread has called
RunCall(t) ==
  /\ run.th[t].op = "none"
  /\ \E c \in RunCalls :
       /\ \A u \in Threads \ {t} : run.th[u].node # c[2]
       /\ run' = [run EXCEPT !.th[t] = [op |-> c[1], node |-> c[2], pc |-> 1,
                                        val |-> Zero, div |-> c[3]]]
  /\ UNCHANGED <<regs, hw, call, prog, fw, rpi, bind>>

\* thread t calls one of the operations that wait or take the lock
RunWaitCall(t) ==
  /\ run.th[t].op = "none"
  /\ \E c \in RunWaitCalls :
       /\ \A u \in Threads \ {t} : run.th[u].node # c[2]
       /\ run' = [run EXCEPT !.th[t] = [op |-> c[1], node |-> c[2], pc |-> 1,
                                        val |-> Zero, div |-> c[3]]]
  /\ UNCHANGED <<regs, hw, call, prog, fw, rpi, bind>>

\* the registers after the access ins, val being the value (val & ~clr) | set
\* that a write stores
ExecRegs(ins, val) ==
  CASE ins.k = "write" -> cprman_write([mem |-> regs, log |-> <<>>], ins.reg, val).mem
    [] ins.k = "writel" -> writel([mem |-> regs, log |-> <<>>], ins.reg, val).mem
    [] OTHER -> regs

\* the lock and the threads after the access ins of thread t: a poll that does
\* not find the awaited state is repeated
ExecRun(t, ins) ==
  CASE ins.k = "lock" -> [run EXCEPT !.lock = t, !.th[t].pc = @ + 1]
    [] ins.k = "unlock" -> [run EXCEPT !.lock = "none", !.th[t].pc = @ + 1]
    [] ins.k = "read" -> [run EXCEPT !.th[t].val = regs[ins.reg], !.th[t].pc = @ + 1]
    [] ins.k = "poll" ->
         IF PollReady(regs[ins.reg], ins) THEN [run EXCEPT !.th[t].pc = @ + 1] ELSE run
    [] OTHER -> [run EXCEPT !.th[t].pc = @ + 1]

\* thread t makes the next access of its call; spin_lock waits for the lock
RunStep(t) ==
  /\ run.th[t].op # "none"
  /\ run.th[t].pc <= Len(Program(run.th[t]))
  /\ \E ins \in {Program(run.th[t])[run.th[t].pc]} :
       /\ ins.k = "lock" => run.lock = "none"
       /\ \E kept \in {And(run.th[t].val, Not32(ins.clr))} :
            \E val \in {Or(kept, ins.set)} : regs' = ExecRegs(ins, val)
       /\ run' = ExecRun(t, ins)
  /\ UNCHANGED <<hw, call, prog, fw, rpi, bind>>

\* the PLL locks
HwPllLocks ==
  /\ And(regs[CM_LOCK], bcm2835_pll_data[hw].lock_mask) = Zero
  /\ regs' = HwPllLocked([mem |-> regs, log |-> <<>>], bcm2835_pll_data[hw]).mem
  /\ UNCHANGED <<hw, call, prog, fw, rpi, run, bind>>

\* the divider of a clock that is being disabled completes its cycle
HwClockIdle ==
  \E c \in RunClocks :
    /\ And(regs[bcm2835_clock_data[c].ctl_reg], CM_BUSY) # Zero
    /\ And(regs[bcm2835_clock_data[c].ctl_reg], CM_ENABLE) = Zero
    /\ regs' = HwDividerCycleDone([mem |-> regs, log |-> <<>>],
                                  bcm2835_clock_data[c]).mem
    /\ UNCHANGED <<hw, call, prog, fw, rpi, run, bind>>

NextRun ==
  \/ \E t \in Threads : RunCall(t)
  \/ \E t \in Threads : RunStep(t)
  \/ HwPllLocks
  \/ HwClockIdle

SpecRun == InitRun /\ [][NextRun]_vars

NextWait ==
  \/ \E t \in Threads : RunWaitCall(t)
  \/ \E t \in Threads : RunStep(t)
  \/ HwPllLocks
  \/ HwClockIdle

\* the calls that wait, with every thread in a call getting to run and the
\* hardware not stuck
SpecWait ==
  /\ InitRun
  /\ [][NextWait]_vars
  /\ \A t \in Threads : WF_vars(RunStep(t))
  /\ WF_vars(HwPllLocks)
  /\ WF_vars(HwClockIdle)

(***************************************************************************)
(* The binding of the firmware device.  probe allocates the instance,      *)
(* stores it in the global pointer firmware, requests the mailbox channel  *)
(* and initialises the completion; remove frees the channel and clears the *)
(* pointer.  raspberrypi_firmware_property is called by other drivers at   *)
(* any time and looks at the pointer only.  The driver core runs probe and *)
(* remove of the device one at a time.                                     *)
(***************************************************************************)
InitBind ==
  /\ hw = "plla"
  /\ regs = PriorRegs("reset")
  /\ call = NoCall
  /\ prog = NoProg
  /\ fw = FwInit
  /\ rpi = RpiInit
  /\ run = RunInit
  /\ bind = BindInit

\* firmware = devm_kzalloc(...): the instance is zeroed, or the allocation fails
ProbeAlloc ==
  /\ bind.probe = "idle"
  /\ bind.remove = "idle"
  /\ bind.firmware = "null"
  /\ \/ bind' = [bind EXCEPT !.firmware = "alloc", !.chan = "null", !.c = "none",
                             !.probe = "request"]
     \/ bind' = [bind EXCEPT !.firmware = "null", !.chan = "null", !.c = "none"]
  /\ UNCHANGED <<regs, hw, call, prog, fw, rpi, run>>

\* firmware->chan = mbox_request_channel(...); on an error: firmware = NULL
ProbeRequestChannel ==
  /\ bind.probe = "request"
  /\ \/ bind' = [bind EXCEPT !.chan = "bound", !.probe = "init"]
     \/ bind' = [bind EXCEPT !.chan = "err", !.firmware = "null", !.probe = "idle"]
  /\ UNCHANGED <<regs, hw, call, prog, fw, rpi, run>>

\* init_completion(&firmware->c); ...; return 0
ProbeInitCompletion ==
  /\ bind.probe = "init"
  /\ bind' = [bind EXCEPT !.c = "init", !.probe = "idle"]
  /\ UNCHANGED <<regs, hw, call, prog, fw, rpi, run>>

\* remove of the bound device: mbox_free_channel(firmware->chan)
RemoveFreeChannel ==
  /\ bind.probe = "idle"
  /\ bind.remove = "idle"
  /\ bind.firmware = "alloc"
  /\ bind' = [bind EXCEPT !.chan = "freed", !.remove = "clear"]
  /\ UNCHANGED <<regs, hw, call, prog, fw, rpi, run>>

\* firmware = NULL; return 0
RemoveClear ==
  /\ bind.remove = "clear"
  /\ bind' = [bind EXCEPT !.firmware = "null", !.remove = "idle"]
  /\ UNCHANGED <<regs, hw, call, prog, fw, rpi, run>>

\* raspberrypi_firmware_property: if (!firmware) return -EPROBE_DEFER
PropertyCheck(t) ==
  /\ bind.pc[t] = "idle"
  /\ bind' = IF bind.firmware = "null"
               THEN [bind EXCEPT !.ret[t] = 0 - EPROBE_DEFER, !.sent[t] = <<>>]
               ELSE [bind EXCEPT !.pc[t] = "transaction", !.ret[t] = 0,
                                 !.sent[t] = <<>>]
  /\ UNCHANGED <<regs, hw, call, prog, fw, rpi, run>>

\* raspberrypi_firmware_transaction: reinit_completion(&firmware->c);
\* mbox_send_message(firmware->chan, ...); sent records what the request used
PropertyTransaction(t) ==
  /\ bind.pc[t] = "transaction"
  /\ bind' = [bind EXCEPT !.pc[t] = "idle",
                          !.sent[t] = <<bind.firmware, bind.chan, bind.c>>]
  /\ UNCHANGED <<regs, hw, call, prog, fw, rpi, run>>

NextBind ==
  \/ ProbeAlloc
  \/ ProbeRequestChannel
  \/ ProbeInitCompletion
  \/ RemoveFreeChannel
  \/ RemoveClear
  \/ \E t \in Threads : PropertyCheck(t)
  \/ \E t \in Threads : PropertyTransaction(t)

SpecBind == InitBind /\ [][NextBind]_vars

(***************************************************************************)
(* Probe of the clock providers.  Each probe allocates the table           *)
(* onecell->clks, sets onecell->clk_num, stores the clocks it registers at *)
(* their indices and hands the table to of_clk_add_provider.  bind.onecell *)
(* records the number of entries that the allocation holds and the indices *)
(* that were written.  The indices of the CPRMAN and of the auxiliary      *)
(* clocks are those of the device-tree binding headers.                    *)
(***************************************************************************)
ENOMEM == 12

ENODEV == 19

rpi_clocks ==
  [i \in 0..10 |-> <<"", "emmc", "uart0", "arm", "core", "v3d", "h264", "isp",
                     "sdram", "pixel", "pwm">>[i + 1]]

ARRAY_SIZE(table) == Cardinality(DOMAIN table)

\* dt-bindings/clock/bcm2835-aux.h
bcm2835_aux_clock_ids == [uart |-> 0, spi1 |-> 1, spi2 |-> 2, count |-> 3]

\* dt-bindings/clock/bcm2835.h
bcm2835_clock_ids ==
  [plla |-> 0, pllb |-> 1, pllc |-> 2, plld |-> 3, pllh |-> 4,
   plla_core |-> 5, plla_per |-> 6, pllb_arm |-> 7, pllc_core0 |-> 8,
   pllc_core1 |-> 9, pllc_core2 |-> 10, pllc_per |-> 11, plld_core |-> 12,
   plld_per |-> 13, pllh_rcal |-> 14, pllh_aux |-> 15, pllh_pix |-> 16,
   timer |-> 17, otp |-> 18, uart |-> 19, vpu |-> 20, v3d |-> 21, isp |-> 22,
   h264 |-> 23, vec |-> 24, hsm |-> 25, sdram |-> 26, tsens |-> 27, emmc |-> 28,
   peri_image |-> 29, count |-> 30]

\* the clocks that bcm2835_clk_probe stores, in the order of its assignments
Bcm2835ClkProbeStores ==
  <<"plla", "pllb", "pllc", "plld", "pllh", "plla_core", "plla_per", "pllc_core0",
    "pllc_core1", "pllc_core2", "pllc_per", "plld_core", "plld_per", "pllh_rcal",
    "pllh_aux", "pllh_pix", "timer", "otp", "tsens", "vpu", "v3d", "isp", "h264",
    "v3d", "sdram", "uart", "vec", "hsm", "emmc", "peri_image">>

\* a probe that returns ret before it has allocated the table
ProbeFails(provider, ret) ==
  [NoOnecell EXCEPT !.provider = provider, !.ret = ret]

\* onecell->clk_num = clk_num; onecell->clks = kzalloc(size of entries entries):
\* the table holds that many entries, or the allocation fails with -ENOMEM
ProbeTable(provider, clk_num, entries, ok) ==
  [NoOnecell EXCEPT !.provider = provider, !.clk_num = clk_num,
                    !.alloc = IF ok THEN entries ELSE 0,
                    !.pc = IF ok THEN "store" ELSE "idle",
                    !.ret = IF ok THEN 0 ELSE 0 - ENOMEM]

InitProbe ==
  /\ hw = "plla"
  /\ regs = PriorRegs("reset")
  /\ call = NoCall
  /\ prog = NoProg
  /\ fw = FwInit
  /\ rpi = RpiInit
  /\ run = RunInit
  /\ bind = BindInit

\* rpi_clk_probe up to the loop: the firmware node and the firmware are looked
\* up, onecell and the table are allocated; sizeof(*onecell->clks) is one entry
RpiClkProbe ==
  /\ bind.onecell.pc = "idle"
  /\ \/ \E ret \in {0 - ENODEV, 0 - EPROBE_DEFER, 0 - ENOMEM} :
          bind' = [bind EXCEPT !.onecell = ProbeFails("rpi", ret)]
     \/ \E ok \in BOOLEAN :
          bind' = [bind EXCEPT !.onecell =
                     ProbeTable("rpi", ARRAY_SIZE(rpi_clocks), 1, ok)]
  /\ rpi' = RpiInit
  /\ UNCHANGED <<regs, hw, call, prog, fw, run>>

\* one pass of the loop over rpi_clocks: an entry without a name is skipped;
\* the clock is allocated, registered and stored in onecell->clks[i], and its
\* rate is read from the firmware
RpiClkProbeClock ==
  /\ bind.onecell.provider = "rpi"
  /\ bind.onecell.pc = "store"
  /\ bind.onecell.i < ARRAY_SIZE(rpi_clocks)
  /\ IF rpi_clocks[bind.onecell.i] = ""
       THEN /\ bind' = [bind EXCEPT !.onecell.i = @ + 1]
            /\ rpi' = rpi
       ELSE \/ /\ bind' = [bind EXCEPT !.onecell.pc = "idle",
                                       !.onecell.ret = 0 - ENOMEM]
               /\ rpi' = rpi
            \/ /\ bind' = [bind EXCEPT !.onecell.written = @ \cup {bind.onecell.i},
                                       !.onecell.pc = "idle",
                                       !.onecell.ret = 0 - EINVAL]
               /\ rpi' = rpi
            \/ /\ bind' = [bind EXCEPT !.onecell.written = @ \cup {bind.onecell.i},
                                       !.onecell.i = @ + 1]
               /\ \E ret \in RpiTransportRets, reply \in RpiRates :
                    rpi' = rpi_clk_get_rate(RpiInit, ret, reply)
  /\ UNCHANGED <<regs, hw, call, prog, fw, run>>

\* return of_clk_add_provider(..., of_clk_src_onecell_get, onecell)
RpiClkProbeAddProvider ==
  /\ bind.onecell.provider = "rpi"
  /\ bind.onecell.pc = "store"
  /\ bind.onecell.i = ARRAY_SIZE(rpi_clocks)
  /\ bind' = [bind EXCEPT !.onecell.pc = "idle", !.onecell.added = TRUE]
  /\ UNCHANGED <<regs, hw, call, prog, fw, rpi, run>>

\* bcm2835_aux_clk_probe: the table is kzalloc(sizeof(*onecell->clks)), one
\* entry; the three gates are stored and the provider is added
bcm2835_aux_clk_probe ==
  /\ bind.onecell.pc = "idle"
  /\ \/ \E ret \in {0 - ENODEV, 0 - ENOMEM} :
          bind' = [bind EXCEPT !.onecell = ProbeFails("aux", ret)]
     \/ bind' = [bind EXCEPT !.onecell =
                   [ProbeTable("aux", bcm2835_aux_clock_ids.count, 1, FALSE)
                      EXCEPT !.i = 0]]
     \/ bind' = [bind EXCEPT !.onecell =
                   [ProbeTable("aux", bcm2835_aux_clock_ids.count, 1, TRUE)
                      EXCEPT !.written = {bcm2835_aux_clock_ids.uart,
                                          bcm2835_aux_clock_ids.spi1,
                                          bcm2835_aux_clock_ids.spi2},
                             !.i = 3, !.pc = "idle", !.added = TRUE]]
  /\ UNCHANGED <<regs, hw, call, prog, fw, rpi, run>>

\* bcm2835_clk_probe: the table is kzalloc(sizeof(*onecell->clks) *
\* BCM2835_CLOCK_COUNT); the PLLs, the channel dividers, the clocks and the gate
\* are stored and the provider is added
bcm2835_clk_probe ==
  /\ bind.onecell.pc = "idle"
  /\ \/ \E ret \in {0 - ENODEV, 0 - ENOMEM} :
          bind' = [bind EXCEPT !.onecell = ProbeFails("cprman", ret)]
     \/ bind' = [bind EXCEPT !.onecell =
                   [ProbeTable("cprman", bcm2835_clock_ids.count,
                               bcm2835_clock_ids.count, FALSE) EXCEPT !.i = 0]]
     \/ bind' = [bind EXCEPT !.onecell =
                   [ProbeTable("cprman", bcm2835_clock_ids.count,
                               bcm2835_clock_ids.count, TRUE)
                      EXCEPT !.written = {bcm2835_clock_ids[Bcm2835ClkProbeStores[k]] :
                                            k \in 1..Len(Bcm2835ClkProbeStores)},
                             !.i = Len(Bcm2835ClkProbeStores),
                             !.pc = "idle", !.added = TRUE]]
  /\ UNCHANGED <<regs, hw, call, prog, fw, rpi, run>>

NextProbe ==
  \/ RpiClkProbe
  \/ RpiClkProbeClock
  \/ RpiClkProbeAddProvider
  \/ bcm2835_aux_clk_probe
  \/ bcm2835_clk_probe

SpecProbe == InitProbe /\ [][NextProbe]_vars

(***************************************************************************)
(* Properties.  They are stated on the record of the last call: its        *)
(* arguments, its results and the register accesses in call.log.           *)
(***************************************************************************)
Reads(log) == SelectSeq(log, LAMBDA a : a.op = "r")

Writes(log) == SelectSeq(log, LAMBDA a : a.op = "w")

\* the position in the log of the first access op to reg (0 if there is none)
Pos(log, op, reg) ==
  IF \E i \in 1..Len(log) : log[i].op = op /\ log[i].reg = reg
  THEN CHOOSE i \in 1..Len(log) :
         /\ log[i].op = op /\ log[i].reg = reg
         /\ \A j \in 1..(i - 1) : ~(log[j].op = op /\ log[j].reg = reg)
  ELSE 0

\* the value of that access
ValueAt(log, op, reg) == log[Pos(log, op, reg)].val

\* bit n of a word is set
BitSet(w, n) == (Limb(w, (n \div 15) + 1) \div 2^(n % 15)) % 2 = 1

\* a value below 2^31
Small(w) == w[3] < 2 /\ w[4] = 0 /\ w[5] = 0

AbsDiff(a, b) == IF Lt(a, b) THEN Sub64(b, a) ELSE Sub64(a, b)

PllOfCall == bcm2835_pll_data[call.node]

AcceptedSetRate == call.fn = "pll_set_rate" /\ call.err = 0

\* C1: a PLL set_rate with a rate below min_rate or above max_rate returns
\* -EINVAL, accesses no register, and leaves every register as it was.
C1_OutOfRangeRejected ==
  [][(call'.fn = "pll_set_rate"
      /\ (Lt(call'.rate, bcm2835_pll_data[call'.node].min_rate)
          \/ Lt(bcm2835_pll_data[call'.node].max_rate, call'.rate)))
     => (call'.err = 0 - 22 /\ Writes(call'.log) = <<>> /\ regs' = regs)]_vars

C1_Witness ==
  /\ call.fn = "pll_set_rate"
  /\ Lt(PllOfCall.max_rate, call.rate)
  /\ call.err = 0 - 22
  /\ regs # PriorRegs("reset")

\* C2: after an accepted set_rate(r, p), get_rate(p) of the PLL returns a value
\* within ceil(p / 2^20) of r.
C2_SetGetWithinStep ==
  (call.fn = "pll_get_rate" /\ prog # NoProg /\ call.parent_rate = prog.parent_rate)
  => Le(AbsDiff(call.ret, prog.rate), Shr(Add64(prog.parent_rate, U(2^20 - 1)), 20))

\* the halved rate, the divisor and the words written by an accepted set_rate
C3RateUsed == IF Lt(PllOfCall.max_fb_rate, call.rate) THEN Shr(call.rate, 1) ELSE call.rate

C3Div == do_div(Shl64(C3RateUsed, 20), call.parent_rate)

C3Ctrl == ValueAt(call.log, "w", PllOfCall.a2w_ctrl_reg)

C3Ana1 == ValueAt(call.log, "w", PllOfCall.ana_reg_base + 4)

\* C3: an accepted set_rate(r, p) computes div = floor(rate_used * 2^20 / p) with
\* rate_used = floor(r / 2) if r > max_fb_rate and r otherwise; it writes
\* ndiv = div >> 20, fdiv = div mod 2^20 and pdiv = 1, and an analog word whose
\* pre-divider bit is set exactly if r > max_fb_rate.
C3_PredivAndDivisors ==
  AcceptedSetRate
  => /\ BitSet(C3Ana1, PllOfCall.ana.fb_prediv_bit) <=> Lt(PllOfCall.max_fb_rate, call.rate)
     /\ And(C3Ctrl, U(\H3ff)) = Shr(C3Div, 20)
     /\ And(ValueAt(call.log, "w", PllOfCall.frac_reg), U(2^24 - 1))
          = And(C3Div, U(2^20 - 1))
     /\ And(Shr(C3Ctrl, 12), U(7)) = U(1)

C3_Witness ==
  /\ AcceptedSetRate
  /\ Lt(PllOfCall.max_fb_rate, call.rate)
  /\ BitSet(C3Ana1, PllOfCall.ana.fb_prediv_bit)
  /\ And(C3Ctrl, U(\H3ff)) = U(78)

\* the order of the writes of an accepted set_rate
C4AnaBeforeDivisors ==
  \A k \in {0, 4, 8, 12} :
    /\ Pos(call.log, "w", PllOfCall.ana_reg_base + k) > 0
    /\ Pos(call.log, "w", PllOfCall.ana_reg_base + k)
         < Pos(call.log, "w", PllOfCall.frac_reg)
    /\ Pos(call.log, "w", PllOfCall.ana_reg_base + k)
         < Pos(call.log, "w", PllOfCall.a2w_ctrl_reg)

C4DivisorsBeforeAna ==
  \A k \in {0, 4, 8, 12} :
    /\ Pos(call.log, "w", PllOfCall.frac_reg) > 0
    /\ Pos(call.log, "w", PllOfCall.a2w_ctrl_reg) > 0
    /\ Pos(call.log, "w", PllOfCall.frac_reg)
         < Pos(call.log, "w", PllOfCall.ana_reg_base + k)
    /\ Pos(call.log, "w", PllOfCall.a2w_ctrl_reg)
         < Pos(call.log, "w", PllOfCall.ana_reg_base + k)

\* the pre-divider bit the hardware held when the call started
C4BitAtStart ==
  BitSet(ValueAt(call.log, "r", PllOfCall.ana_reg_base + 4), PllOfCall.ana.fb_prediv_bit)

\* C4: an accepted set_rate that turns the pre-divider bit on (it was clear in the
\* hardware, r > max_fb_rate) writes the divisors before the analog words; any
\* other one writes the four analog words before the divisors.
C4_AnaWriteOrder ==
  AcceptedSetRate
  => IF ~C4BitAtStart /\ Lt(PllOfCall.max_fb_rate, call.rate)
     THEN C4DivisorsBeforeAna
     ELSE C4AnaBeforeDivisors

\* the peripheral of the last divider call
DividerOfCall == bcm2835_pll_divider_data[call.node]

\* C5: enable() of a channel divider writes exactly the channel register with
\* channel-disable clear and then the PLL control register with the hold bits
\* clear; disable() writes exactly the PLL control register with the hold bits
\* set and then the channel register with channel-disable set.
C5_DividerWriteOrder ==
  /\ call.fn = "divider_on"
     => /\ Len(Writes(call.log)) = 2
        /\ Writes(call.log)[1].reg = DividerOfCall.a2w_reg
        /\ ~BitSet(Writes(call.log)[1].val, 8)
        /\ Writes(call.log)[2].reg = DividerOfCall.cm_reg
        /\ And(Writes(call.log)[2].val, DividerOfCall.hold_mask) = Zero
  /\ call.fn = "divider_off"
     => /\ Len(Writes(call.log)) = 2
        /\ Writes(call.log)[1].reg = DividerOfCall.cm_reg
        /\ And(Writes(call.log)[1].val, DividerOfCall.hold_mask) = DividerOfCall.hold_mask
        /\ Writes(call.log)[2].reg = DividerOfCall.a2w_reg
        /\ BitSet(Writes(call.log)[2].val, 8)

C5_Witness ==
  /\ call.fn = "divider_on"
  /\ DividerOfCall.hold_mask # Zero
  /\ BitSet(ValueAt(call.log, "r", DividerOfCall.a2w_reg), 8)
  /\ And(ValueAt(call.log, "r", DividerOfCall.cm_reg), DividerOfCall.hold_mask) # Zero
  /\ ~BitSet(regs[DividerOfCall.a2w_reg], 8)

ClockOfCall == bcm2835_clock_data[call.node]

\* C6: is_enabled(), enable() and disable() of a non-stop clock access no
\* register and take no lock, whatever calls came before; is_enabled() returns
\* true and enable() returns 0.
C6_NonstopIgnoresGating ==
  (call.fn \in {"clock_is_on", "clock_on", "clock_off"} /\ ClockOfCall.is_nonstop)
  => /\ call.log = <<>>
     /\ call.fn = "clock_is_on" => call.err = 1
     /\ call.fn = "clock_on" => call.err = 0

C6_Witness ==
  /\ call.fn = "clock_is_on"
  /\ ClockOfCall.is_nonstop
  /\ call.err = 1
  /\ ~BitSet(regs[ClockOfCall.ctl_reg], 4)

\* the divisor that the claim derives from the value read
C7Raw == And(ValueAt(call.log, "r", DividerOfCall.a2w_reg), U(255))

C7Divisor == IF C7Raw = Zero THEN 256 ELSE Val(C7Raw)

\* C7: get_rate(parent_rate) of a channel divider returns
\* floor(parent_rate / d), d being the low 8 bits of the channel register, or 256
\* if they are 0.
C7_DividerGetRate ==
  call.fn = "divider_get_rate"
  => /\ Le(MulL(call.ret, C7Divisor), call.parent_rate)
     /\ Lt(call.parent_rate, MulL(Add64(call.ret, U(1)), C7Divisor))

C7_Witness ==
  /\ call.fn = "divider_get_rate"
  /\ C7Raw = Zero
  /\ Lt(U(256), call.parent_rate)
  /\ call.ret = Shr(call.parent_rate, 8)

\* C8: with PLLC set to 3,000,000,000 Hz from 19,200,000 Hz, get_rate uses the
\* integer divisor 156, and a channel of PLLC whose raw divisor is 4 reports
\* 750,000,000 Hz for the rate the PLL reads back.
C8_Scenario ==
  (/\ call.fn = "divider_get_rate"
   /\ hw = "pllc"
   /\ prog = [rate |-> Hz(3000, 0), parent_rate |-> Hz(19, 200000)]
   /\ C7Raw = U(4)
   /\ call.parent_rate = PllRateOfRegs(bcm2835_pll_data.pllc, regs, Hz(19, 200000)))
  => /\ PllEffectiveNdiv(bcm2835_pll_data.pllc, regs[\H1120], regs[\H1034]) = U(156)
     /\ call.ret = Hz(750, 0)

\* the step 2^(12 - frac_bits) of the divisor of the clock
C9Step == 2^(12 - ClockOfCall.frac_bits)

\* C9: the divisor chosen for a peripheral clock is a multiple of the step
\* 2^(12 - frac_bits), at least one step, and at most the largest multiple of the
\* step below 2^(int_bits + 12).
C9_DivisorInRange ==
  call.fn \in {"clock_round_rate", "clock_set_rate"}
  => /\ Small(call.div)
     /\ Val(call.div) % C9Step = 0
     /\ Val(call.div) >= C9Step
     /\ Val(call.div) <= 2^(ClockOfCall.int_bits + 12) - C9Step

C9_Witness ==
  /\ call.fn = "clock_round_rate"
  /\ ClockOfCall.frac_bits = 8
  /\ Lt(Shl64(call.parent_rate, 12), call.rate)
  /\ call.div = U(16)

\* the 12-bit divisor field of the result, and the exact rate of a field value
C10Field == Val(Shr(call.div, 4)) % 4096

C10RateAt(f) == do_div(Shl64(call.parent_rate, 8), U(f))

\* the change of the rate by one step of the field, to the neighbours it has
C10StepChange ==
  max(IF C10Field > 1 THEN Sub64(C10RateAt(C10Field - 1), C10RateAt(C10Field)) ELSE Zero,
      IF C10Field < 4095 THEN Sub64(C10RateAt(C10Field), C10RateAt(C10Field + 1)) ELSE Zero)

\* C10: for a clock with int_bits = 4 and frac_bits = 8 and an ideal divisor
\* parent_rate / rate between one step and the largest divisor, the rate that
\* round_rate returns for the chosen divisor differs from the requested rate by
\* at most the change of the rate by one step of the 8-bit fractional divisor.
C10_RoundTrip ==
  (/\ call.fn = "clock_round_rate"
   /\ ClockOfCall.int_bits = 4 /\ ClockOfCall.frac_bits = 8
   /\ Le(MulL(call.rate, 16), Shl64(call.parent_rate, 12))
   /\ Le(Shl64(call.parent_rate, 12), Mul64(call.rate, U(\Hfff0))))
  => Le(AbsDiff(call.ret, call.rate), C10StepChange)

\* the divisor fields of the PLL of the call, as integers
C11Ndiv == Val(And(regs[PllOfCall.a2w_ctrl_reg], U(\H3ff)))

C11Pdiv == Val(And(regs[PllOfCall.a2w_ctrl_reg], U(\H7000))) \div 4096

C11Fdiv == Val(And(regs[PllOfCall.frac_reg], U(\Hfffff)))

C11N ==
  IF BitSet(regs[PllOfCall.ana_reg_base + 4], PllOfCall.ana.fb_prediv_bit)
  THEN 2 * C11Ndiv ELSE C11Ndiv

\* floor(parent_rate * (n * 2^20 + fdiv) / (pdiv * 2^20)), exactly
C11Reference ==
  do_div(Mul64(call.parent_rate, U(C11N * 2^20 + C11Fdiv)), U(C11Pdiv * 2^20))

\* C11: the rate that get_rate of a PLL returns is
\* floor(parent_rate * (n * 2^20 + fdiv) / (pdiv * 2^20)) for the fields ndiv, pdiv
\* of the control register and fdiv of the fractional register, n being ndiv
\* doubled when the pre-divider bit of the analog word is set, and 0 when
\* parent_rate or pdiv is 0.
C11_PllGetRateFormula ==
  call.fn = "pll_get_rate"
  => call.ret = IF call.parent_rate = Zero \/ C11Pdiv = 0 THEN Zero ELSE C11Reference

\* the register-format divisor that the call converts to a rate
C12Raw == IF call.fn = "clock_get_rate" THEN regs[ClockOfCall.div_reg] ELSE call.div

\* shifted right by 12 - frac_bits and masked to int_bits + frac_bits bits
C12Div ==
  (Val(C12Raw) \div 2^(12 - ClockOfCall.frac_bits))
    % 2^(ClockOfCall.int_bits + ClockOfCall.frac_bits)

\* C12: get_rate and round_rate of a peripheral clock return
\* floor(parent_rate * 2^frac_bits / div) for the divisor div of the register
\* format shifted right by 12 - frac_bits and masked to int_bits + frac_bits bits,
\* and 0 when div is 0.
C12_RateFromDivisor ==
  call.fn \in {"clock_get_rate", "clock_round_rate"}
  => call.ret = IF C12Div = 0 THEN Zero
                ELSE do_div(Shl64(call.parent_rate, ClockOfCall.frac_bits), U(C12Div))

\* C13: enable() of a PLL reads the control register, writes it back with the
\* analog reset bit clear and every other bit as read, polls the lock register
\* only after that write, ends with a poll that sees the lock bit of this PLL
\* set, and returns 0.
C13_PllOnOrder ==
  call.fn = "pll_on"
  => /\ call.err = 0
     /\ Len(call.log) >= 3
     /\ call.log[1] = Access("r", PllOfCall.cm_ctrl_reg, call.log[1].val)
     /\ call.log[2] = Access("w", PllOfCall.cm_ctrl_reg,
                             Or(CM_PASSWORD, And(call.log[1].val, Not32(CM_PLL_ANARST))))
     /\ \A i \in 1..Len(call.log) :
          /\ call.log[i].op = "w" => i = 2
          /\ call.log[i].reg = CM_LOCK => i > 2 /\ call.log[i].op = "r"
     /\ And(call.log[Len(call.log)].val, PllOfCall.lock_mask) # Zero
     /\ call.log[Len(call.log)].reg = CM_LOCK

\* a PLL held in reset and unlocked is enabled
C13_Witness ==
  /\ call.fn = "pll_on"
  /\ And(call.log[1].val, CM_PLL_ANARST) # Zero
  /\ Len(call.log) = 4
  /\ And(call.log[3].val, PllOfCall.lock_mask) = Zero

\* C14: every value that an operation writes to the register block carries the
\* password 0x5a in bits 31..24.
C14_WritesCarryPassword ==
  \A i \in 1..Len(call.log) :
    call.log[i].op = "w" => Shr(call.log[i].val, 24) = U(\H5a)

\* the lock is held at position i of the log
C15Held(log, i) ==
  \E j \in 1..(i - 1) :
    /\ log[j].op = "lock"
    /\ \A k \in (j + 1)..(i - 1) : log[k].op # "unlock"

\* the read at i and the write at j are a read-modify-write of one register
C15ReadModifyWrite(log, i, j) ==
  /\ i < j
  /\ log[i].op = "r" /\ log[j].op = "w" /\ log[i].reg = log[j].reg
  /\ \A k \in (i + 1)..(j - 1) : log[k].reg # log[i].reg

\* C15: in enable(), disable() and set_rate() of a PLL, a channel divider or a
\* peripheral clock, every read of a register that is followed by a write of the
\* same register happens, like the write and every access between them, with the
\* register lock held.
C15_ReadModifyWriteLocked ==
  call.fn \in {"pll_on", "pll_off", "pll_set_rate", "divider_on", "divider_off",
               "divider_set_rate", "clock_on", "clock_off", "clock_set_rate"}
  => \A i, j \in 1..Len(call.log) :
       C15ReadModifyWrite(call.log, i, j)
       => \A k \in i..j : C15Held(call.log, k)

\* the raw 8-bit divisor of the channel of the call, 0 read as 256
C17Divisor ==
  IF Val(regs[DividerOfCall.a2w_reg]) % 256 = 0 THEN 256
  ELSE Val(regs[DividerOfCall.a2w_reg]) % 256

\* C17: the rate that the clock registered under the name of a channel reports
\* is floor(floor(parent_rate / divisor) / fixed_divider), with fixed_divider 10
\* for pllh_rcal, pllh_aux and pllh_pix and 1 for the other channels.
C17_FixedPostDivider ==
  call.fn = "divider_node_get_rate"
  => /\ DividerOfCall.fixed_divider
          = IF call.node \in {"pllh_rcal", "pllh_aux", "pllh_pix"} THEN 10 ELSE 1
     /\ call.ret = do_div(do_div(call.parent_rate, U(C17Divisor)),
                          U(DividerOfCall.fixed_divider))

\* a PLLH channel whose divided rate is no multiple of 10
C17_Witness ==
  /\ call.fn = "divider_node_get_rate"
  /\ DividerOfCall.fixed_divider = 10
  /\ call.ret # Zero
  /\ MulL(call.ret, 10) # do_div(call.parent_rate, U(C17Divisor))

\* the divisor field of the channel register after the call
C18Stored == Val(regs[DividerOfCall.a2w_reg]) % 256

\* d is an integer of 1..255 nearest to parent_rate / rate
C18Nearest(d) ==
  /\ d \in 1..255
  /\ \A e \in 1..255 :
       Le(AbsDiff(call.parent_rate, MulL(call.rate, d)),
          AbsDiff(call.parent_rate, MulL(call.rate, e)))

\* C18: after set_rate(rate, parent_rate) of a channel divider the divisor field
\* holds an integer d of 1..255 nearest to parent_rate / rate, and a get_rate
\* that follows returns floor(parent_rate / d) for that d.
C18_SetThenGet ==
  call.fn = "divider_set_rate"
  => /\ C18Nearest(C18Stored)
     /\ bcm2835_pll_divider_get_rate(Begin, DividerOfCall, call.parent_rate).ret
          = do_div(call.parent_rate, U(C18Stored))

\* the bits of a register below the password, without the load bit of a channel
C19Others(w, data) == And(And(w, U(\Hffffff)), Not32(data.load_mask))

\* the writes of the call c of a channel with the data: the divisor, the load
\* bit set, the load bit clear; before and after are the register contents
C19Pulse(c, data, before, after) ==
  /\ Len(Writes(c.log)) = 3
  /\ Writes(c.log)[1].reg = data.a2w_reg
  /\ Val(Writes(c.log)[1].val) % 256 = Val(c.div)
  /\ Writes(c.log)[2].reg = data.cm_reg
  /\ And(Writes(c.log)[2].val, data.load_mask) = data.load_mask
  /\ Writes(c.log)[3].reg = data.cm_reg
  /\ And(Writes(c.log)[3].val, data.load_mask) = Zero
  /\ And(after[data.cm_reg], data.load_mask) = Zero
  /\ C19Others(after[data.cm_reg], data) = C19Others(before[data.cm_reg], data)

\* C19: set_rate of a channel divider writes the divisor, then the PLL control
\* register with the load bit of the channel set, then the same register with
\* the load bit clear; afterwards the load bit is clear and every other bit of
\* the PLL control register below the password is as it was before the call.
C19_LoadPulse ==
  [][call'.fn = "divider_set_rate"
     => C19Pulse(call', bcm2835_pll_divider_data[call'.node], regs, regs')]_vars

\* a set_rate that found the load bit set
C19_Witness ==
  /\ call.fn = "divider_set_rate"
  /\ And(ValueAt(call.log, "r", DividerOfCall.cm_reg), DividerOfCall.load_mask) # Zero
  /\ And(regs[DividerOfCall.cm_reg], DividerOfCall.load_mask) = Zero

\* the quotient parent_rate * 2^12 / rate rounded down, and its remainder
C20Floor == do_div(Shl64(call.parent_rate, 12), call.rate)

C20Rem == Sub64(Shl64(call.parent_rate, 12), Mul64(C20Floor, call.rate))

\* the integers nearest to the quotient (two of them when it lies half way)
C20Quotients ==
  {Val(C20Floor) + k : k \in {k \in {0, 1} :
     IF k = 0 THEN Le(Shl64(C20Rem, 1), call.rate) ELSE Le(call.rate, Shl64(C20Rem, 1))}}

\* the multiples of the step nearest to q
C20Multiples(q) ==
  {s \in {q - (q % C9Step), q - (q % C9Step) + C9Step} :
     2 * (IF s < q THEN q - s ELSE s - q) <= C9Step}

\* the values of the claim that lie inside the clamp range
C20Nearest ==
  {s \in UNION {C20Multiples(q) : q \in C20Quotients} :
     s >= C9Step /\ s <= 2^(ClockOfCall.int_bits + 12) - C9Step}

\* C20: the divisor chosen for a peripheral clock is the quotient
\* parent_rate * 2^12 / rate rounded to the nearest integer and then to the
\* nearest multiple of the step 2^(12 - frac_bits), whenever that value lies
\* inside the clamp range.
C20_NearestDivisor ==
  (/\ call.fn = "clock_round_rate"
   /\ Small(C20Floor) /\ Val(C20Floor) < 2^25
   /\ C20Nearest # {})
  => Small(call.div) /\ Val(call.div) \in C20Nearest

\* C16: at most one request is with the mailbox at any time, a request is
\* handed to the mailbox only by the holder of the transaction lock while no
\* other caller's request is unanswered, and a caller that is about to return 0
\* has had its own request answered by the response callback.
C16_OneInFlight ==
  /\ Len(fw.mbox) <= 1
  /\ \A t \in FwCallers :
       /\ fw.req[t] = "sent" => fw.lock = t /\ fw.mbox = <<t>>
       /\ (fw.pc[t] = "unlock" /\ fw.ret[t] = 0) => fw.req[t] = "answered"
       /\ fw.pc[t] \in {"reinit", "send", "wait", "unlock"} => fw.lock = t

\* the second caller returns 0 from a transaction that followed another one
C16_Witness ==
  /\ fw.started >= 2
  /\ fw.pc["t2"] = "unlock" /\ fw.ret["t2"] = 0 /\ fw.req["t2"] = "answered"
  /\ fw.req["t1"] = "answered"

\* the bits of a control word below the password other than enable and gate
C21Others(w) == And(w, U(\Hffffaf))

\* C21: enable() of a gateable peripheral clock takes the register lock, reads
\* the control register, writes it once with the enable and gate bits set and
\* the other bits as read, releases the lock and returns 0; is_enabled() then
\* returns true.
C21_ClockOnOneWrite ==
  (call.fn = "clock_on" /\ ~ClockOfCall.is_nonstop)
  => /\ call.err = 0
     /\ Len(call.log) = 4
     /\ call.log[1].op = "lock" /\ call.log[4].op = "unlock"
     /\ call.log[2].op = "r" /\ call.log[2].reg = ClockOfCall.ctl_reg
     /\ call.log[3].op = "w" /\ call.log[3].reg = ClockOfCall.ctl_reg
     /\ BitSet(call.log[3].val, 4) /\ BitSet(call.log[3].val, 6)
     /\ C21Others(call.log[3].val) = C21Others(call.log[2].val)
     /\ bcm2835_clock_is_on(Begin, ClockOfCall).err = 1

\* a stopped clock with a parent selected is enabled
C21_Witness ==
  /\ call.fn = "clock_on" /\ ~ClockOfCall.is_nonstop
  /\ Len(call.log) = 4
  /\ And(call.log[2].val, U(\H50)) = Zero
  /\ And(call.log[2].val, U(15)) # Zero

\* C22: disable() of a gateable peripheral clock takes the register lock, writes
\* the control register with the enable bit clear and the other bits as read,
\* releases the lock, and ends with a read of the control register, made after
\* the write, that sees the busy bit clear; afterwards the enable bit is clear
\* and is_enabled() returns false.
C22_ClockOffWaits ==
  (call.fn = "clock_off" /\ ~ClockOfCall.is_nonstop)
  => /\ Len(call.log) >= 5
     /\ call.log[1].op = "lock" /\ call.log[4].op = "unlock"
     /\ call.log[2] = Access("r", ClockOfCall.ctl_reg, call.log[2].val)
     /\ call.log[3] = Access("w", ClockOfCall.ctl_reg,
                             Or(CM_PASSWORD, And(call.log[2].val, Not32(CM_ENABLE))))
     /\ \A i \in 5..Len(call.log) :
          call.log[i].op = "r" /\ call.log[i].reg = ClockOfCall.ctl_reg
     /\ ~BitSet(call.log[Len(call.log)].val, 7)
     /\ ~BitSet(regs[ClockOfCall.ctl_reg], 4)
     /\ bcm2835_clock_is_on(Begin, ClockOfCall).err = 0

\* a running clock whose divider is busy is disabled
C22_Witness ==
  /\ call.fn = "clock_off" /\ ~ClockOfCall.is_nonstop
  /\ Len(call.log) = 6
  /\ BitSet(call.log[2].val, 4)
  /\ BitSet(call.log[5].val, 7)

\* floor(parent_rate * floor(rate * 2^20 / parent_rate) / 2^20), exactly
C23Reference ==
  Shr(Mul64(call.parent_rate, do_div(Shl64(call.rate, 20), call.parent_rate)), 20)

\* C23: round_rate of a PLL returns
\* floor(parent_rate * floor(rate * 2^20 / parent_rate) / 2^20) whatever the rate,
\* and for a rate of min_rate..max_fb_rate that set_rate has programmed from the
\* same parent rate it is the rate that get_rate reports.
C23_RoundRateIsGetRate ==
  call.fn = "pll_round_rate"
  => /\ call.ret = C23Reference
     /\ (/\ prog = [rate |-> call.rate, parent_rate |-> call.parent_rate]
         /\ Le(call.rate, PllOfCall.max_fb_rate))
        => call.ret = bcm2835_pll_get_rate(Begin, PllOfCall, call.parent_rate).ret

\* round_rate for the rate that was programmed, and for a rate above max_rate
C23_Witness ==
  /\ call.fn = "pll_round_rate"
  /\ prog = [rate |-> call.rate, parent_rate |-> call.parent_rate]
  /\ call.rate = PllOfCall.max_fb_rate
  /\ call.ret # call.rate

\* C24: when set_rate of a firmware clock has called the firmware and the
\* transport call failed or the reply carries the in-band error value (rate 0),
\* set_rate returns a nonzero error and the cached last_rate keeps the value it
\* had before the call.
C24_SetRateReportsFailure ==
  [][(/\ rpi'.fn = "set_rate"
      /\ rpi'.sent
      /\ (rpi'.ret # 0 \/ rpi'.reply = RPI_FIRMWARE_SET_CLOCK_RATE_ERROR))
     => (rpi'.err # 0 /\ rpi'.last_rate = rpi.last_rate)]_vars

\* the registers of the analog configuration and of the divisor of a PLL
C28Programmed(data) ==
  {data.ana_reg_base, data.ana_reg_base + 4, data.ana_reg_base + 8,
   data.ana_reg_base + 12, data.frac_reg, data.a2w_ctrl_reg}

\* the write at i of the log unmasks the reference of the PLL: it follows a read
\* of A2W_XOSC_CTRL and writes the value read with the reference-enable bit set
C28Unmask(log, data, i) ==
  /\ i > 1
  /\ log[i].op = "w"
  /\ log[i].reg = A2W_XOSC_CTRL
  /\ log[i - 1].op = "r"
  /\ log[i - 1].reg = A2W_XOSC_CTRL
  /\ log[i].val = Or(CM_PASSWORD, Or(log[i - 1].val, data.reference_enable_mask))

\* C28 as stated: every successful set_rate of a PLL writes A2W_XOSC_CTRL once,
\* with the value read and the reference-enable bit of the PLL set, after the
\* writes of the analog configuration and of the divisor.
C28_UnmaskAfterWrites ==
  (call.fn = "pll_set_rate" /\ call.err = 0) =>
    \E i \in 1..Len(call.log) :
      /\ C28Unmask(call.log, bcm2835_pll_data[call.node], i)
      /\ \A j \in 1..Len(call.log) :
           /\ (call.log[j].op = "w" /\ call.log[j].reg = A2W_XOSC_CTRL) => j = i
           /\ (/\ call.log[j].op = "w"
               /\ call.log[j].reg \in C28Programmed(bcm2835_pll_data[call.node]))
              => j < i

\* C28 amended: every successful set_rate of a PLL writes A2W_XOSC_CTRL once,
\* with the value read and the reference-enable bit of the PLL set, before the
\* writes of the analog configuration and of the divisor.
C28_UnmaskBeforeWrites ==
  (call.fn = "pll_set_rate" /\ call.err = 0) =>
    \E i \in 1..Len(call.log) :
      /\ C28Unmask(call.log, bcm2835_pll_data[call.node], i)
      /\ \A j \in 1..Len(call.log) :
           /\ (call.log[j].op = "w" /\ call.log[j].reg = A2W_XOSC_CTRL) => j = i
           /\ (/\ call.log[j].op = "w"
               /\ call.log[j].reg \in C28Programmed(bcm2835_pll_data[call.node]))
              => i < j

\* a successful set_rate that found the reference of another PLL enabled and
\* its own masked, and has written all six registers
C28_Witness ==
  /\ call.fn = "pll_set_rate"
  /\ call.err = 0
  /\ \E i \in 1..Len(call.log) :
       /\ C28Unmask(call.log, bcm2835_pll_data[call.node], i)
       /\ call.log[i - 1].val # Zero
       /\ And(call.log[i - 1].val, bcm2835_pll_data[call.node].reference_enable_mask) = Zero
  /\ \A r \in C28Programmed(bcm2835_pll_data[call.node]) :
       \E j \in 1..Len(call.log) : call.log[j].op = "w" /\ call.log[j].reg = r

\* the last call is no set_rate of a peripheral clock, or it has returned 0 after
\* exactly one register access: the write of bcm2835_clock_choose_div(rate,
\* parent_rate) to the divider register of the clock
C29OneWrite ==
  (call.fn = "clock_set_rate") =>
    /\ call.err = 0
    /\ call.log =
         <<Access("w", bcm2835_clock_data[call.node].div_reg,
                  Or(CM_PASSWORD,
                     bcm2835_clock_choose_div(bcm2835_clock_data[call.node],
                                              call.rate, call.parent_rate)))>>
    /\ regs[bcm2835_clock_data[call.node].div_reg] = call.log[1].val

\* C29: set_rate of a peripheral clock returns 0 and makes exactly one register
\* access, the write of bcm2835_clock_choose_div(rate, parent_rate) to the
\* divider register of the clock: it never takes the lock, reads no register and
\* writes no control register, and every other register, the control register
\* with its enable, gate and source fields included, keeps its value, whether the
\* clock is enabled or not.
C29_SetRateOneWrite ==
  /\ []C29OneWrite
  /\ [][(call'.fn = "clock_set_rate") =>
          \A r \in Regs \ {bcm2835_clock_data[call'.node].div_reg} :
            regs'[r] = regs[r]]_vars

\* set_rate has written a divisor other than the one in the register, on a
\* clock that is enabled
C29_Witness ==
  /\ call.fn = "clock_set_rate"
  /\ And(regs[bcm2835_clock_data[call.node].ctl_reg], CM_ENABLE) # Zero
  /\ call.div # Zero
  /\ \E c \in Clocks \ {call.node} :
       regs[bcm2835_clock_data[c].div_reg] # regs[bcm2835_clock_data[call.node].div_reg]

\* the control register that the call of th changes, the bits that the call
\* leaves clear in it and the bits that it leaves set
C25Change(th) ==
  CASE th.op = "pll_on" ->
         [reg |-> bcm2835_pll_data[th.node].cm_ctrl_reg, clr |-> CM_PLL_ANARST,
          set |-> Zero]
    [] th.op = "divider_on" ->
         [reg |-> bcm2835_pll_divider_data[th.node].cm_reg,
          clr |-> bcm2835_pll_divider_data[th.node].hold_mask, set |-> Zero]
    [] th.op = "divider_off" ->
         [reg |-> bcm2835_pll_divider_data[th.node].cm_reg,
          clr |-> bcm2835_pll_divider_data[th.node].load_mask,
          set |-> bcm2835_pll_divider_data[th.node].hold_mask]
    [] th.op = "divider_set_rate" ->
         [reg |-> bcm2835_pll_divider_data[th.node].cm_reg,
          clr |-> bcm2835_pll_divider_data[th.node].load_mask, set |-> Zero]

\* C25: when two threads have called enable, disable or set_rate of two channel
\* dividers of one PLL, or one of these and enable of the PLL, and both calls
\* have returned, the control register of the PLL shows the bit changes of both
\* calls, in whatever order their register accesses were made.
C25_NoLostUpdate ==
  (\A t \in Threads :
     /\ Returned(run.th[t])
     /\ run.th[t].op \in {"pll_on", "divider_on", "divider_off", "divider_set_rate"})
  => \A t \in Threads :
       /\ And(regs[C25Change(run.th[t]).reg], C25Change(run.th[t]).clr) = Zero
       /\ And(regs[C25Change(run.th[t]).reg], C25Change(run.th[t]).set)
            = C25Change(run.th[t]).set

\* thread t is in the loop that polls a status bit
C26Polling(t) ==
  /\ run.th[t].op # "none"
  /\ run.th[t].pc <= Len(Program(run.th[t]))
  /\ Program(run.th[t])[run.th[t].pc].k = "poll"

\* C26: a thread that is in the wait loop of enable() of a PLL (polling the lock
\* status) or of disable() of a peripheral clock (polling BUSY) does not hold the
\* register lock, and a thread that wants the lock meanwhile finds it free.
C26_NoLockWhilePolling ==
  \A t \in Threads :
    C26Polling(t) =>
      /\ run.lock # t
      /\ \A u \in Threads \ {t} :
           (/\ run.th[u].op # "none"
            /\ run.th[u].pc <= Len(Program(run.th[u]))
            /\ Program(run.th[u])[run.th[u].pc].k = "lock")
           => run.lock = "none"

\* a thread waits for BUSY of a clock it has disabled while the other thread
\* holds the lock
C26_Witness ==
  \E t \in Threads, u \in Threads :
    /\ C26Polling(t)
    /\ run.th[t].op = "clock_off"
    /\ And(regs[bcm2835_clock_data[run.th[t].node].ctl_reg], CM_BUSY) # Zero
    /\ run.lock = u
    /\ u # t

\* the status bit that the wait loop of the call of th polls is in the state
\* that the loop waits for
C27Awaited(th) ==
  IF th.op = "pll_on"
  THEN And(regs[CM_LOCK], bcm2835_pll_data[th.node].lock_mask) # Zero
  ELSE And(regs[bcm2835_clock_data[th.node].ctl_reg], CM_BUSY) = Zero

\* C27: enable() of a PLL and disable() of a peripheral clock leave their wait
\* loop only on a read that finds the polled bit in the awaited state (there is
\* no timeout and no error exit), and when every thread keeps running and the
\* hardware reaches the awaited state, every such call returns.
C27_WaitTerminates ==
  /\ [][\A t \in Threads :
          (C26Polling(t) /\ run'.th[t].pc # run.th[t].pc) => C27Awaited(run.th[t])]_vars
  /\ \A t \in Threads :
       (run.th[t].op \in {"pll_on", "clock_off"}) ~> Returned(run.th[t])

\* enable() of the PLL has returned with the PLL locked while disable() of a
\* clock is still polling BUSY, which is high
C27_Witness ==
  \E t \in Threads, u \in Threads :
    /\ run.th[t].op = "pll_on"
    /\ Returned(run.th[t])
    /\ C27Awaited(run.th[t])
    /\ run.th[u].op = "clock_off"
    /\ C26Polling(u)
    /\ ~C27Awaited(run.th[u])

\* C30: a firmware property request that has returned -EPROBE_DEFER has sent
\* nothing, a request made while the global pointer is NULL (before probe, after
\* a failed probe, after remove) returns -EPROBE_DEFER, and a request that has
\* reached mbox_send_message has used an instance whose channel is bound and
\* whose completion is initialised, however it interleaves with probe and
\* remove.
C30_RequestOnlyWhenBound ==
  \A t \in Threads :
    /\ bind.ret[t] = 0 - EPROBE_DEFER => bind.sent[t] = <<>>
    /\ bind.sent[t] # <<>> => bind.sent[t] = <<"alloc", "bound", "init">>

\* C31: after an enable() of a firmware clock that has returned success the
\* clock is on in the firmware, and after a disable() that has met no error the
\* clock is off in the firmware, whatever calls of enable(), disable(),
\* get_rate() and set_rate() came before.
C31_StateFollowsCall ==
  (rpi.fn \in {"on", "off"} /\ rpi.err = 0) => rpi.fw_on = (rpi.fn = "on")

\* C32: when disable() of a PLL is followed by enable(), which returns success,
\* is_enabled() returns true from the registers as they are: the bit
\* A2W_PLL_CTRL_PRST_DISABLE that it reads is set, and the power-down bit that
\* disable() wrote is clear.
C32_OnAfterOffOn ==
  [][(call.fn = "pll_off" /\ call'.fn = "pll_on" /\ call'.err = 0) =>
       /\ bcm2835_pll_is_on([mem |-> regs', log |-> <<>>],
                            bcm2835_pll_data[call'.node]).err # 0
       /\ And(regs'[bcm2835_pll_data[call'.node].a2w_ctrl_reg], A2W_PLL_CTRL_PWRDN)
            = Zero]_vars

\* the rate that bcm2835_pll_get_rate returns from the registers mem of the PLL
\* that set_rate has programmed last, for the parent rate of that call
C33Rate(mem) == PllRateOfRegs(bcm2835_pll_data[hw], mem, prog.parent_rate)

\* C33: after a successful set_rate(r, p) of a PLL, disable() and a following
\* enable() leave the value that get_rate(p) returns as it was before them.
C33_RateKeptByOffOn ==
  [][(prog # NoProg /\ call'.fn \in {"pll_off", "pll_on"}) =>
       C33Rate(regs') = C33Rate(regs)]_vars

\* C34: disable() and enable() of a channel divider leave the value that
\* get_rate(parent_rate) returns, and the divisor it is computed from, as they
\* were before the call, whatever the channel register holds.
C34_DivisorKeptByOffOn ==
  [][(call'.fn \in {"divider_off", "divider_on"}) =>
       /\ PllDividerDiv(regs'[bcm2835_pll_divider_data[call'.node].a2w_reg])
            = PllDividerDiv(regs[bcm2835_pll_divider_data[call'.node].a2w_reg])
       /\ bcm2835_pll_divider_get_rate([mem |-> regs', log |-> <<>>],
                                       bcm2835_pll_divider_data[call'.node],
                                       Hz(1000, 0)).ret
            = bcm2835_pll_divider_get_rate([mem |-> regs, log |-> <<>>],
                                           bcm2835_pll_divider_data[call'.node],
                                           Hz(1000, 0)).ret]_vars

\* C35: disable() of a PLL leaves the hold and load bits of every channel
\* divider of the PLL, which are in the control register of the PLL, as they
\* were: in that register only CM_PLL_ANARST changes.
C35_OffKeepsChannelBits ==
  [][(call'.fn = "pll_off") =>
       /\ And(regs'[bcm2835_pll_data[call'.node].cm_ctrl_reg], Not32(CM_PLL_ANARST))
            = And(regs[bcm2835_pll_data[call'.node].cm_ctrl_reg], Not32(CM_PLL_ANARST))
       /\ \A d \in Dividers :
            bcm2835_pll_divider_data[d].source_pll = call'.node =>
              And(regs'[bcm2835_pll_divider_data[d].cm_reg],
                  Or(bcm2835_pll_divider_data[d].load_mask,
                     bcm2835_pll_divider_data[d].hold_mask))
                = And(regs[bcm2835_pll_divider_data[d].cm_reg],
                      Or(bcm2835_pll_divider_data[d].load_mask,
                         bcm2835_pll_divider_data[d].hold_mask))]_vars

\* the bits of analog word n that set_rate may change: the bias field of the
\* PLL in that word (the complement of mask n, where the PLL has one), the bits
\* of the value it sets there and, in word 1, the feedback pre-divider bit
C36MayChange(data, n) ==
  CASE n = 0 -> Or(IF data.ana.mask0 = Zero THEN Zero ELSE Not32(data.ana.mask0),
                   data.ana.set0)
    [] n = 1 -> Or(Or(IF data.ana.mask1 = Zero THEN Zero ELSE Not32(data.ana.mask1),
                      data.ana.set1), BIT(data.ana.fb_prediv_bit))
    [] n = 2 -> Zero
    [] n = 3 -> Or(IF data.ana.mask3 = Zero THEN Zero ELSE Not32(data.ana.mask3),
                   data.ana.set3)

\* C36: a successful set_rate of a PLL writes every analog word back with the
\* value it has read at the start of the call in every bit outside the bias
\* fields of the PLL and the feedback pre-divider bit (the password byte that
\* every write carries apart).
C36_AnaOtherBitsKept ==
  (call.fn = "pll_set_rate" /\ call.err = 0) =>
    \A n \in 0..3 : \A i, j \in 1..Len(call.log) :
      (/\ call.log[i].op = "r"
       /\ call.log[j].op = "w"
       /\ call.log[i].reg = bcm2835_pll_data[call.node].ana_reg_base + 4 * n
       /\ call.log[j].reg = call.log[i].reg)
      => And(call.log[j].val,
             Not32(Or(Shl32(U(255), 24), C36MayChange(bcm2835_pll_data[call.node], n))))
           = And(call.log[i].val,
                 Not32(Or(Shl32(U(255), 24), C36MayChange(bcm2835_pll_data[call.node], n))))

\* C37: round_rate of a PLL is idempotent: for a parent rate above 0 the rate
\* that round_rate returns is returned unchanged when it is given to
\* round_rate again with the same parent rate.
C37_RoundRateIdempotent ==
  (call.fn = "pll_round_rate" /\ call.parent_rate # Zero) =>
    bcm2835_pll_round_rate(call.ret, call.parent_rate) = call.ret

\* C38: for every peripheral clock, rate above 0 and parent rate, get_rate
\* with the parent rate of a set_rate that came before it returns the rate
\* that round_rate returns for the rate and the parent rate of that set_rate.
C38_GetRateIsRoundRate ==
  (call.fn = "clock_get_rate" /\ call.rate # Zero) =>
    call.ret = bcm2835_clock_round_rate(Begin, bcm2835_clock_data[hw],
                                        call.rate, call.parent_rate).ret

\* get_rate has read a divisor that set_rate wrote: one that the limits of the
\* clock have clamped, and one that they have not
C38_Witness ==
  /\ call.fn = "clock_get_rate"
  /\ Shr(regs[bcm2835_clock_data[hw].div_reg], 24) = Shr(CM_PASSWORD, 24)
  /\ call.ret # Zero
  /\ call.div # Or(CM_PASSWORD, ClockDivMax(bcm2835_clock_data[hw]))
  /\ call.div # Or(CM_PASSWORD, ClockDivMin(bcm2835_clock_data[hw]))

\* C39: for a fixed peripheral clock and parent rate the divisor that
\* choose_div returns does not grow with the rate: no higher rate gets a
\* larger divisor than the rate of the call.  A rate so low that the quotient
\* parent_rate * 2^12 / rate is above the largest divisor of the clock, 2^32
\* and above included, gets the largest divisor.
C39_DivisorMonotone ==
  (call.fn = "clock_round_rate" /\ call.rate # Zero) =>
    /\ \A rate \in RoundRates :
         Lt(call.rate, rate) =>
           Le(bcm2835_clock_choose_div(bcm2835_clock_data[hw], rate, call.parent_rate),
              call.div)
    /\ Lt(ClockDivMax(bcm2835_clock_data[hw]),
          do_div(Shl64(call.parent_rate, CM_DIV_FRAC_BITS), call.rate))
         => call.div = ClockDivMax(bcm2835_clock_data[hw])

\* C40: at the probe of every clock provider each index at which a clock is
\* stored in the table of the provider is below the number of entries that
\* were allocated for the table, and the clk_num of a provider that has been
\* added is not above that number.
C40_TableInBounds ==
  /\ \A i \in bind.onecell.written : i < bind.onecell.alloc
  /\ bind.onecell.added => bind.onecell.clk_num <= bind.onecell.alloc

====
